---- MODULE Spec2Model ----
(***************************************************************************)
(* Model of the UmbraCore migration tooling:                               *)
(*   - MigrationTracker  (alpha-tools/python/alpha_migration_tracker.py)   *)
(*   - DependencyAnalyzer (alpha-tools/python/bazel_dependency_analyzer.py)*)
(*   - MigrationArchiver (alpha-tools/python/migrate_to_archive.py)        *)
(*                                                                         *)
(* Conventions.  A Python Optional[T] is a sequence of length <= 1:        *)
(* <<>> is None and <<v>> is the value v.  A Python dict is a pair         *)
(* (sequence of keys in insertion order, function from key to value).      *)
(* Text that the program parses (ISO dates) is a sequence of characters.   *)
(***************************************************************************)
EXTENDS Integers, Sequences, FiniteSets, TLC

VARIABLES
    pc,             \* the tracker's process: "start", "ready", "crashed" or "exited"
    file,           \* the persisted snapshot, migration_status.json
    module_keys,    \* the keys of self.modules, in insertion order
    modules,        \* self.modules: name -> ModuleInfo
    today,          \* datetime.date.today()
    last_call,      \* the latest call on the tracker, with its arguments
    ret,            \* what the latest call returned, as an Optional
    load_outcome    \* how _load_data ended: its outcome and the exception

tracker_vars == <<pc, file, module_keys, modules, today, last_call, ret, load_outcome>>

VARIABLES
    valid_dependencies,  \* self.valid_dependencies: package -> list of packages
    workspace,           \* the build graph bazelisk answers queries from
    analyzer_pc,         \* the analyzer's process: "idle", "exited", or "rerun"
    queries,             \* which queries of the latest analysis failed
    package_deps_keys,   \* the keys of package_deps, in insertion order
    package_deps,        \* package_deps: package -> set of packages
    invalid_deps,        \* invalid_deps: list of (source_pkg, target_pkg)
    analysis_ret,        \* what analyze_dependencies returned, as an Optional
    exit_status,         \* the status main() exited with, as an Optional
    validity_call,       \* the arguments of the latest is_dependency_valid call
    validity_ret         \* what that call returned, as an Optional

analyzer_vars == <<valid_dependencies, workspace, analyzer_pc, queries, package_deps_keys,
                   package_deps, invalid_deps, analysis_ret, exit_status,
                   validity_call, validity_ret>>

\* One call of get_migration_order taken step by step: a step is one
\* iteration of one of its loops, or the end of one dfs call.
VARIABLES
    dfs_pc,          \* "idle", in the loop over "roots", over "remaining", or "returned"
    dfs_loop,        \* the index in self.modules of the loop's next key
    dfs_stack,       \* the active dfs calls: module_name and index of the next dependency
    visited,         \* visited, the set of names dfs has marked
    result,          \* result, the names in the order dfs appended them
    dfs_expansions   \* module name -> how often a dfs call got past the visited test

traversal_vars == <<dfs_pc, dfs_loop, dfs_stack, visited, result, dfs_expansions>>

VARIABLES
    archiver_pc,     \* the archiver's process: "idle" or "exited"
    source_dirs,     \* the directories in Sources/
    archive_dirs,    \* the directories in MigratedArchive/
    archive_errors,  \* the directories logged as "ERROR: Failed to archive"
    archived_count,  \* archived_count
    skipped_count,   \* skipped_count
    archiver_exit    \* the status the script exited with, as an Optional

archiver_vars == <<archiver_pc, source_dirs, archive_dirs, archive_errors,
                   archived_count, skipped_count, archiver_exit>>

(***************************************************************************)
(* Generic helpers                                                         *)
(***************************************************************************)
None == <<>>
Some(v) == <<v>>

Range(s) == {s[i] : i \in 1..Len(s)}

\* reversed() left out: the sequence as it is.
Reverse_omitted(s) == s

Reverse(s) == [i \in 1..Len(s) |-> s[Len(s) + 1 - i]]

NoDup(s) == \A i, j \in 1..Len(s) : i # j => s[i] # s[j]

IndexOf(s, v) == CHOOSE i \in 1..Len(s) : s[i] = v

\* All sequences over S of length at most n without a repeated element.
RECURSIVE DistinctSeqs(_, _)
DistinctSeqs(S, n) ==
    IF n = 0 THEN {<<>>}
    ELSE LET shorter == DistinctSeqs(S, n - 1)
         IN shorter \cup {s \in {Append(t, v) : t \in shorter, v \in S} : NoDup(s)}

EmptyDict == [k \in {} |-> None]

\* d[key] = value on a Python dict: a new key goes last, an old key keeps
\* its place.
DictSetKeys(keys, key) == IF key \in Range(keys) THEN keys ELSE Append(keys, key)
DictSet(d, key, value) == [k \in DOMAIN d \cup {key} |-> IF k = key THEN value ELSE d[k]]

(***************************************************************************)
(* MigrationStatus, ModuleInfo                                             *)
(***************************************************************************)
NOT_STARTED == "NOT_STARTED"
IN_PROGRESS == "IN_PROGRESS"
COMPLETED == "COMPLETED"
BLOCKED == "BLOCKED"
SKIPPED == "SKIPPED"

MigrationStatus == <<NOT_STARTED, IN_PROGRESS, COMPLETED, BLOCKED, SKIPPED>>

\* member.value
StatusValue(status) ==
    CASE status = NOT_STARTED -> "Not Started"
      [] status = IN_PROGRESS -> "In Progress"
      [] status = COMPLETED -> "Completed"
      [] status = BLOCKED -> "Blocked"
      [] status = SKIPPED -> "Skipped"

ModuleInfo(name, status, dependencies, dependents, migration_date, blocking_issues, notes) ==
    [name |-> name, status |-> status, dependencies |-> dependencies,
     dependents |-> dependents, migration_date |-> migration_date,
     blocking_issues |-> IF blocking_issues = None THEN <<>> ELSE blocking_issues[1],
     notes |-> notes]

(***************************************************************************)
(* get_migration_order                                                     *)
(***************************************************************************)
RECURSIVE dfs(_, _, _), dfs_dependencies(_, _, _, _)

\* The nested dfs(module_name); st is the pair of closure variables
\* (visited, result), ms is self.modules.
dfs(ms, module_name, st) ==
    IF module_name \in st.visited THEN st
    ELSE LET marked == [visited |-> st.visited \cup {module_name}, result |-> st.result]
             after == dfs_dependencies(ms, ms[module_name].dependencies, 1, marked)
         IN [visited |-> after.visited, result |-> Append(after.result, module_name)]

\* for dep in self.modules[module_name].dependencies, from the i-th on
dfs_dependencies(ms, deps, i, st) ==
    IF i > Len(deps) THEN st
    ELSE dfs_dependencies(ms, deps, i + 1,
             IF deps[i] \in DOMAIN ms THEN dfs(ms, deps[i], st) ELSE st)

\* for name, module in self.modules.items(): if not module.dependents: dfs(name)
RECURSIVE dfs_roots(_, _, _, _)
dfs_roots(keys, ms, i, st) ==
    IF i > Len(keys) THEN st
    ELSE dfs_roots(keys, ms, i + 1,
             IF ms[keys[i]].dependents = <<>> THEN dfs(ms, keys[i], st) ELSE st)

\* for name in self.modules: dfs(name)
RECURSIVE dfs_remaining(_, _, _, _)
dfs_remaining(keys, ms, i, st) ==
    IF i > Len(keys) THEN st
    ELSE dfs_remaining(keys, ms, i + 1, dfs(ms, keys[i], st))

\* dfs_result without the second loop: only the modules reached from a
\* module with no dependents.
dfs_result_roots_only(keys, ms) ==
    dfs_roots(keys, ms, 1, [visited |-> {}, result |-> <<>>]).result

\* The DFS post-order before the final reversal.
dfs_result(keys, ms) ==
    dfs_remaining(keys, ms, 1,
                  dfs_roots(keys, ms, 1, [visited |-> {}, result |-> <<>>])).result

get_migration_order(keys, ms) == Reverse(dfs_result(keys, ms))

(***************************************************************************)
(* datetime.date: a record (year, month, day); isoformat / fromisoformat    *)
(***************************************************************************)
Date(y, m, d) == [year |-> y, month |-> m, day |-> d]

IsLeap(y) == (y % 4 = 0 /\ y % 100 # 0) \/ y % 400 = 0

DaysInMonth(y, m) ==
    IF m = 2 THEN (IF IsLeap(y) THEN 29 ELSE 28)
    ELSE IF m \in {4, 6, 9, 11} THEN 30 ELSE 31

IsDate(d) ==
    /\ d.year \in 1..9999
    /\ d.month \in 1..12
    /\ d.day \in 1..DaysInMonth(d.year, d.month)

NextDay(d) ==
    IF d.day < DaysInMonth(d.year, d.month) THEN Date(d.year, d.month, d.day + 1)
    ELSE IF d.month < 12 THEN Date(d.year, d.month + 1, 1)
    ELSE Date(d.year + 1, 1, 1)

Digits == <<"0", "1", "2", "3", "4", "5", "6", "7", "8", "9">>

DigitChar(n) == Digits[n + 1]

IsDigit(c) == c \in Range(Digits)

DigitValue(c) == IndexOf(Digits, c) - 1

\* date.isoformat(): "YYYY-MM-DD", zero padded
isoformat(d) ==
    <<DigitChar(d.year \div 1000), DigitChar((d.year \div 100) % 10),
      DigitChar((d.year \div 10) % 10), DigitChar(d.year % 10), "-",
      DigitChar(d.month \div 10), DigitChar(d.month % 10), "-",
      DigitChar(d.day \div 10), DigitChar(d.day % 10)>>

\* The date that a text in the form YYYY-MM-DD spells, valid or not.
ParsedDate(text) ==
    Date(DigitValue(text[1]) * 1000 + DigitValue(text[2]) * 100
           + DigitValue(text[3]) * 10 + DigitValue(text[4]),
         DigitValue(text[6]) * 10 + DigitValue(text[7]),
         DigitValue(text[9]) * 10 + DigitValue(text[10]))

\* Whether date.fromisoformat(text) returns (TRUE) or raises ValueError.
IsIsoDate(text) ==
    /\ Len(text) = 10
    /\ text[5] = "-" /\ text[8] = "-"
    /\ \A i \in {1, 2, 3, 4, 6, 7, 9, 10} : IsDigit(text[i])
    /\ IsDate(ParsedDate(text))

fromisoformat(text) == ParsedDate(text)

(***************************************************************************)
(* add_module, update_module_status                                        *)
(***************************************************************************)
\* add_module that keeps the migration date of the record it replaces when
\* it is given none.
add_module_keeps_date(ms, name, status, dependencies, dependents, migration_date, blocking_issues, notes) ==
    DictSet(ms, name,
            ModuleInfo(name, status, dependencies, dependents,
                       IF migration_date = None /\ name \in DOMAIN ms
                       THEN ms[name].migration_date ELSE migration_date,
                       blocking_issues, notes))

\* self.modules after add_module(...); blocking_issues is an Optional.
add_module(ms, name, status, dependencies, dependents, migration_date, blocking_issues, notes) ==
    DictSet(ms, name,
            ModuleInfo(name, status, dependencies, dependents, migration_date,
                       blocking_issues, notes))

\* The return value of update_module_status.
update_module_status_result(ms, name) == name \in DOMAIN ms

\* The date after an update that clears it whenever the module is not
\* Completed and no date is given.
updated_migration_date_clears(module, status, migration_date, now) ==
    IF status = COMPLETED /\ migration_date = None THEN Some(now)
    ELSE migration_date

\* updated_migration_date that stamps today's date only on a module that has
\* no date yet, and ignores an explicit date given with COMPLETED.
updated_migration_date_keep(module, status, migration_date, now) ==
    IF status = COMPLETED
    THEN (IF module.migration_date = None THEN Some(now) ELSE module.migration_date)
    ELSE IF migration_date # None THEN migration_date
    ELSE module.migration_date

\* The migration date update_module_status leaves on the module.
updated_migration_date(module, status, migration_date, now) ==
    IF status = COMPLETED /\ migration_date = None THEN Some(now)
    ELSE IF migration_date # None THEN migration_date
    ELSE module.migration_date

\* update_module_status that drops the blocking issues of a module that
\* leaves the Blocked status.
update_module_status_unblocks(ms, name, status, migration_date, notes, now) ==
    IF name \notin DOMAIN ms THEN ms
    ELSE LET module == ms[name]
         IN [ms EXCEPT ![name] =
                [module EXCEPT
                    !.status = status,
                    !.migration_date = IF status = COMPLETED /\ migration_date = None
                                       THEN Some(now)
                                       ELSE IF migration_date # None THEN migration_date
                                       ELSE module.migration_date,
                    !.blocking_issues = IF status = BLOCKED THEN module.blocking_issues
                                        ELSE <<>>,
                    !.notes = IF notes # None THEN notes[1] ELSE module.notes]]

\* update_module_status that creates the record of a name it does not find.
update_module_status_upsert(ms, name, status, migration_date, notes, now) ==
    DictSet(ms, name,
            ModuleInfo(name, status, <<>>, <<>>,
                       IF status = COMPLETED /\ migration_date = None
                       THEN Some(now) ELSE migration_date,
                       None, IF notes # None THEN notes[1] ELSE ""))

\* update_module_status that stops tracking a module it is told to skip.
update_module_status_drops_skipped(ms, name, status, migration_date, notes, now) ==
    IF name \notin DOMAIN ms THEN ms
    ELSE IF status = SKIPPED THEN [n \in DOMAIN ms \ {name} |-> ms[n]]
    ELSE LET module == ms[name]
         IN [ms EXCEPT ![name] =
                [module EXCEPT
                    !.status = status,
                    !.migration_date = IF status = COMPLETED /\ migration_date = None
                                       THEN Some(now)
                                       ELSE IF migration_date # None THEN migration_date
                                       ELSE module.migration_date,
                    !.notes = IF notes # None THEN notes[1] ELSE module.notes]]

\* self.modules after update_module_status(name, status, migration_date, notes);
\* migration_date and notes are Optionals.
update_module_status(ms, name, status, migration_date, notes, now) ==
    IF name \notin DOMAIN ms THEN ms
    ELSE LET module == ms[name]
         IN [ms EXCEPT ![name] =
                [module EXCEPT
                    !.status = status,
                    !.migration_date = updated_migration_date(module, status, migration_date, now),
                    !.notes = IF notes # None THEN notes[1] ELSE module.notes]]

(***************************************************************************)
(* _initialize_default_modules                                             *)
(***************************************************************************)
\* The arguments of the eight add_module calls, in order.
DefaultModules(now) ==
    <<ModuleInfo("UmbraErrors", COMPLETED, <<>>,
                 <<"CoreDTOs", "UserDefaults", "SecurityInterfaces">>, Some(now), None,
                 "Successfully migrated to Alpha Dot Five architecture."),
      ModuleInfo("CoreDTOs", IN_PROGRESS, <<"UmbraErrors">>,
                 <<"UserDefaults", "SecurityInterfaces">>, None, None,
                 "Dependencies updated to use migrated UmbraErrors module."),
      ModuleInfo("UserDefaults", NOT_STARTED, <<"UmbraErrors", "CoreDTOs">>,
                 <<"SecurityInterfaces">>, None, None,
                 "Planned for migration after CoreDTOs is complete."),
      ModuleInfo("SecurityInterfaces", NOT_STARTED,
                 <<"UmbraErrors", "CoreDTOs", "UserDefaults">>, <<>>, None, None,
                 "Depends on UserDefaults migration."),
      ModuleInfo("Notification", NOT_STARTED, <<"UmbraErrors">>, <<>>, None, None, ""),
      ModuleInfo("Scheduling", NOT_STARTED, <<"UmbraErrors">>, <<>>, None, None, ""),
      ModuleInfo("FileSystemTypes", NOT_STARTED, <<>>, <<"CoreDTOs">>, None, None, ""),
      ModuleInfo("SecurityTypes", NOT_STARTED, <<>>,
                 <<"CoreDTOs", "SecurityInterfaces">>, None, None, "")>>

\* The store (keys, modules) after the i-th and later default add_module calls.
RECURSIVE initialize_default_modules_from(_, _, _, _)
initialize_default_modules_from(keys, ms, now, i) ==
    IF i > Len(DefaultModules(now)) THEN [keys |-> keys, modules |-> ms]
    ELSE LET m == DefaultModules(now)[i]
         IN initialize_default_modules_from(
                DictSetKeys(keys, m.name),
                add_module(ms, m.name, m.status, m.dependencies, m.dependents,
                           m.migration_date, Some(m.blocking_issues), m.notes),
                now, i + 1)

initialize_default_modules(keys, ms, now) ==
    initialize_default_modules_from(keys, ms, now, 1)

(***************************************************************************)
(* The persisted snapshot.  The file either does not exist, or holds text  *)
(* that json.load rejects, or holds a JSON object: a sequence of           *)
(* (key, value) members in file order, each value a JSON object given as a *)
(* function from the keys it has to their values.  json.dump followed by   *)
(* json.load returns the dumped strings, lists and nulls unchanged; what   *)
(* the tracker itself converts (status values, dates) is modelled below.   *)
(***************************************************************************)
NoFile == [exists |-> FALSE, valid_json |-> FALSE, data |-> <<>>]

InvalidJsonFile == [exists |-> TRUE, valid_json |-> FALSE, data |-> <<>>]

JsonFile(data) == [exists |-> TRUE, valid_json |-> TRUE, data |-> data]

\* module_to_json that writes the member's name (status.name) for its value.
module_to_json_status_name(module_info) ==
    [status |-> module_info.status,
     dependencies |-> module_info.dependencies,
     dependents |-> module_info.dependents,
     migration_date |-> IF module_info.migration_date # None
                        THEN Some(isoformat(module_info.migration_date[1]))
                        ELSE None,
     blocking_issues |-> module_info.blocking_issues,
     notes |-> module_info.notes]

\* The dict save_data builds for one module.
module_to_json(module_info) ==
    [status |-> StatusValue(module_info.status),
     dependencies |-> module_info.dependencies,
     dependents |-> module_info.dependents,
     migration_date |-> IF module_info.migration_date # None
                        THEN Some(isoformat(module_info.migration_date[1]))
                        ELSE None,
     blocking_issues |-> module_info.blocking_issues,
     notes |-> module_info.notes]

\* The file save_data writes.
save_data(keys, ms) ==
    JsonFile([i \in 1..Len(keys) |-> [key |-> keys[i], value |-> module_to_json(ms[keys[i]])]])

\* MigrationStatus(value): whether the lookup returns (TRUE) or raises ValueError
IsStatusValue(value) == \E i \in 1..Len(MigrationStatus) : StatusValue(MigrationStatus[i]) = value

StatusFromValue(value) ==
    MigrationStatus[CHOOSE i \in 1..Len(MigrationStatus) : StatusValue(MigrationStatus[i]) = value]

\* module_data.get("migration_date") is truthy: present, not null, not ""
HasMigrationDate(module_data) ==
    /\ "migration_date" \in DOMAIN module_data
    /\ module_data.migration_date # None
    /\ module_data.migration_date[1] # <<>>

\* What building ModuleInfo from one member raises, if anything; the
\* keyword arguments are evaluated in the order they are written.
module_from_json_error(module_data) ==
    IF "status" \notin DOMAIN module_data THEN "KeyError"
    ELSE IF ~IsStatusValue(module_data.status) THEN "ValueError"
    ELSE IF "dependencies" \notin DOMAIN module_data THEN "KeyError"
    ELSE IF "dependents" \notin DOMAIN module_data THEN "KeyError"
    ELSE IF HasMigrationDate(module_data) /\ ~IsIsoDate(module_data.migration_date[1])
         THEN "ValueError"
    ELSE "none"

\* The ModuleInfo built from one member that raises nothing.
module_from_json(module_name, module_data) ==
    ModuleInfo(module_name,
               StatusFromValue(module_data.status),
               module_data.dependencies,
               module_data.dependents,
               IF HasMigrationDate(module_data)
               THEN Some(fromisoformat(module_data.migration_date[1]))
               ELSE None,
               IF "blocking_issues" \in DOMAIN module_data
               THEN Some(module_data.blocking_issues) ELSE Some(<<>>),
               IF "notes" \in DOMAIN module_data THEN module_data.notes ELSE "")

\* Which exceptions the try block of _load_data catches.
load_data_catches(error) == error \in {"JSONDecodeError", "KeyError"}

\* The loop of _load_data from the i-th member on: the store it leaves and
\* the exception that ended it ("none" when it ran to the end).
RECURSIVE load_members(_, _, _, _)
load_members(data, i, keys, ms) ==
    IF i > Len(data) THEN [keys |-> keys, modules |-> ms, error |-> "none"]
    ELSE LET error == module_from_json_error(data[i].value)
         IN IF error # "none" THEN [keys |-> keys, modules |-> ms, error |-> error]
            ELSE load_members(data, i + 1, DictSetKeys(keys, data[i].key),
                              DictSet(ms, data[i].key,
                                      module_from_json(data[i].key, data[i].value)))

\* The store the except clause of _load_data leaves, given the store `got`
\* the try block had built when the exception was raised.
load_data_fallback(got, now) == initialize_default_modules(got.keys, got.modules, now)

\* _load_data on a tracker whose self.modules is (keys, ms).  outcome is
\*   "default"  the file does not exist: the default modules
\*   "loaded"   every member was read
\*   "fallback" an exception was caught: the error is printed, then the defaults
\*   "raised"   an exception left _load_data (and the constructor)
load_data(f, keys, ms, now) ==
    IF ~f.exists THEN
        LET d == initialize_default_modules(keys, ms, now)
        IN [outcome |-> "default", error |-> "none", keys |-> d.keys, modules |-> d.modules]
    ELSE LET got == IF f.valid_json THEN load_members(f.data, 1, keys, ms)
                    ELSE [keys |-> keys, modules |-> ms, error |-> "JSONDecodeError"]
         IN IF got.error = "none"
            THEN [outcome |-> "loaded", error |-> "none", keys |-> got.keys, modules |-> got.modules]
            ELSE IF load_data_catches(got.error)
            THEN LET d == load_data_fallback(got, now)
                 IN [outcome |-> "fallback", error |-> got.error,
                     keys |-> d.keys, modules |-> d.modules]
            ELSE [outcome |-> "raised", error |-> got.error,
                  keys |-> got.keys, modules |-> got.modules]

(***************************************************************************)
(* DependencyAnalyzer: the rule set and is_dependency_valid                *)
(***************************************************************************)
\* self.valid_dependencies as __init__ sets it.
DefaultValidDependencies ==
    [p \in {"UmbraErrorKit", "UmbraInterfaces", "UmbraUtils", "UmbraImplementations",
            "UmbraFoundationBridge", "ResticKit"} |->
        CASE p = "UmbraErrorKit" -> <<"UmbraCoreTypes">>
          [] p = "UmbraInterfaces" -> <<"UmbraCoreTypes", "UmbraErrorKit">>
          [] p = "UmbraUtils" -> <<"UmbraCoreTypes">>
          [] p = "UmbraImplementations" ->
                <<"UmbraInterfaces", "UmbraCoreTypes", "UmbraErrorKit", "UmbraUtils">>
          [] p = "UmbraFoundationBridge" -> <<"UmbraCoreTypes">>
          [] p = "ResticKit" -> <<"UmbraInterfaces", "UmbraCoreTypes", "UmbraUtils">>]

\* is_dependency_valid without its first test.
is_dependency_valid_no_self(rules, source_pkg, target_pkg) ==
    IF source_pkg \notin DOMAIN rules THEN FALSE
    ELSE target_pkg \in Range(rules[source_pkg])

\* is_dependency_valid that lets an unknown source package depend on anything.
is_dependency_valid_unknown_ok(rules, source_pkg, target_pkg) ==
    IF source_pkg = target_pkg THEN TRUE
    ELSE IF source_pkg \notin DOMAIN rules THEN TRUE
    ELSE target_pkg \in Range(rules[source_pkg])

\* is_dependency_valid that accepts a dependency whenever either package
\* lists the other.
is_dependency_valid_symmetric(rules, source_pkg, target_pkg) ==
    IF source_pkg = target_pkg THEN TRUE
    ELSE \/ (source_pkg \in DOMAIN rules /\ target_pkg \in Range(rules[source_pkg]))
         \/ (target_pkg \in DOMAIN rules /\ source_pkg \in Range(rules[target_pkg]))

\* is_dependency_valid(source_pkg, target_pkg); rules is self.valid_dependencies
is_dependency_valid(rules, source_pkg, target_pkg) ==
    IF source_pkg = target_pkg THEN TRUE
    ELSE IF source_pkg \notin DOMAIN rules THEN FALSE
    ELSE target_pkg \in Range(rules[source_pkg])

(***************************************************************************)
(* Target labels and parse_target_name.  A label is given by its parts:    *)
(* whether it starts with "//", the "/"-separated segments of the text up  *)
(* to the first ":", and the text after it.                                *)
(***************************************************************************)
Label(root, path, name) == [root |-> root, path |-> path, name |-> name]

\* parse_target_name(target): None, or the second path segment
parse_target_name(target) ==
    IF Len(target.path) > 1 /\ target.path[1] = "packages"
    THEN Some(target.path[2])
    ELSE None

\* `not pkg` for what parse_target_name returned: None or the empty string
NoPackage(pkg) == pkg = None \/ pkg[1] = ""

(***************************************************************************)
(* analyze_dependencies                                                    *)
(***************************************************************************)
\* The guard left out: every package under packages/ is tracked.
is_tracked_target_any(rules, target_pkg) == TRUE

\* The test that guards package_deps[source_pkg].add(target_pkg).
is_tracked_target(rules, target_pkg) ==
    target_pkg \in DOMAIN rules \/ target_pkg = "UmbraCoreTypes"

\* The loop over one target's dependencies without the test
\* target_pkg == source_pkg.
RECURSIVE process_dependencies_keeps_self(_, _, _, _, _)
process_dependencies_keeps_self(rules, source_pkg, dep_rules, i, pd) ==
    IF i > Len(dep_rules) THEN pd
    ELSE LET target_pkg == parse_target_name(dep_rules[i])
             skip == NoPackage(target_pkg) \/ ~is_tracked_target(rules, target_pkg[1])
             had == IF source_pkg \in DOMAIN pd.sets THEN pd.sets[source_pkg] ELSE {}
         IN process_dependencies_keeps_self(rules, source_pkg, dep_rules, i + 1,
                IF skip THEN pd
                ELSE [keys |-> DictSetKeys(pd.keys, source_pkg),
                      sets |-> DictSet(pd.sets, source_pkg, had \cup {target_pkg[1]})])

\* The loop over one target's dependencies, from the i-th on; pd is
\* package_deps as (keys, sets).
RECURSIVE process_dependencies(_, _, _, _, _)
process_dependencies(rules, source_pkg, dep_rules, i, pd) ==
    IF i > Len(dep_rules) THEN pd
    ELSE LET target_pkg == parse_target_name(dep_rules[i])
             skip == NoPackage(target_pkg) \/ target_pkg = Some(source_pkg)
                       \/ ~is_tracked_target(rules, target_pkg[1])
             had == IF source_pkg \in DOMAIN pd.sets THEN pd.sets[source_pkg] ELSE {}
         IN process_dependencies(rules, source_pkg, dep_rules, i + 1,
                IF skip THEN pd
                ELSE [keys |-> DictSetKeys(pd.keys, source_pkg),
                      sets |-> DictSet(pd.sets, source_pkg, had \cup {target_pkg[1]})])

\* The loop over the targets, from the i-th on.  deps_results gives, for a
\* target, what get_target_deps returned: None, or the list of rules.
RECURSIVE process_targets(_, _, _, _, _)
process_targets(rules, target_rules, deps_results, i, pd) ==
    IF i > Len(target_rules) THEN pd
    ELSE LET source_pkg == parse_target_name(target_rules[i])
             deps_result == deps_results[target_rules[i]]
         IN process_targets(rules, target_rules, deps_results, i + 1,
                IF NoPackage(source_pkg) \/ deps_result = None \/ deps_result = Some(<<>>)
                THEN pd
                ELSE process_dependencies(rules, source_pkg[1], deps_result[1], 1, pd))

EmptyPackageDeps == [keys |-> <<>>, sets |-> [k \in {} |-> {}]]

\* package_deps as analyze_dependencies builds it.
build_package_deps(rules, target_rules, deps_results) ==
    process_targets(rules, target_rules, deps_results, 1, EmptyPackageDeps)

\* The targets of one source that the validation loop reports.
invalid_targets_unknown_skipped(rules, source_pkg, deps) ==
    {target_pkg \in deps :
        source_pkg \in DOMAIN rules /\ ~is_dependency_valid(rules, source_pkg, target_pkg)}

invalid_targets(rules, source_pkg, deps) ==
    {target_pkg \in deps : ~is_dependency_valid(rules, source_pkg, target_pkg)}

\* All orders in which a set may be iterated.
Orderings(S) == {s \in [1..Cardinality(S) -> S] : Range(s) = S}

\* The lists the validation loop may build: sources in package_deps' key
\* order, the targets of one source in the order its set is iterated.
RECURSIVE invalid_deps_lists(_, _, _)
invalid_deps_lists(rules, pd, i) ==
    IF i > Len(pd.keys) THEN {<<>>}
    ELSE LET source_pkg == pd.keys[i]
             bad == invalid_targets(rules, source_pkg, pd.sets[source_pkg])
         IN {[k \in 1..Len(o) |-> <<source_pkg, o[k]>>] \o rest :
                o \in Orderings(bad), rest \in invalid_deps_lists(rules, pd, i + 1)}

\* What analyze_dependencies returns once the validation loop has run.
analysis_verdict(invalid) == invalid = <<>>

(***************************************************************************)
(* Bounds and input sets of the tracker                                    *)
(***************************************************************************)
\* Longest dependencies list given to add_module.
MaxDeps == 2

\* Days on which a run may take place, counted from StartDate.
MaxDays == 1

StartDate == Date(2024, 2, 28)

RECURSIVE AddDays(_, _)
AddDays(d, n) == IF n = 0 THEN d ELSE AddDays(NextDay(d), n - 1)

Days == {AddDays(StartDate, n) : n \in 0..MaxDays}

\* Module names given to add_module; a store holding fewer than all of them
\* has dependencies on names it does not track.
Names == {"X", "Y", "Z"}

DependencyLists == DistinctSeqs(Names, MaxDeps)

DependentLists == {<<>>} \cup {<<n>> : n \in Names}

\* Arguments of update_module_status.
UpdateNames == {"X", "Ghost"}

ExplicitDate == Date(2023, 12, 31)

OptionalDates == {None, Some(ExplicitDate)}

OptionalNotes == {None, Some("updated")}

Statuses == Range(MigrationStatus)

\* Members of the snapshots a run may find on disk.
FileNames == {"X", "Y"}

MinimalMember ==
    [status |-> "In Progress", dependencies |-> <<"Y">>, dependents |-> <<>>]

FullMember ==
    [status |-> "Completed", dependencies |-> <<>>, dependents |-> <<"Y">>,
     migration_date |-> Some(isoformat(Date(2024, 1, 9))),
     blocking_issues |-> <<"issue-1">>, notes |-> "done"]

NullDateMember ==
    [status |-> "Blocked", dependencies |-> <<"X">>, dependents |-> <<>>,
     migration_date |-> None, blocking_issues |-> <<"issue-1">>, notes |-> ""]

EmptyDateMember == [NullDateMember EXCEPT !.migration_date = Some(<<>>)]

NoStatusMember == [dependencies |-> <<>>, dependents |-> <<>>, notes |-> "n"]

NoDependenciesMember == [status |-> "Skipped", dependents |-> <<>>]

NoDependentsMember == [status |-> "Not Started", dependencies |-> <<>>]

BadStatusMember == [MinimalMember EXCEPT !.status = "Done"]

BadMonthMember ==
    [FullMember EXCEPT
        !.migration_date = Some(<<"2", "0", "2", "4", "-", "1", "3", "-", "0", "1">>)]

BadDateMember == [FullMember EXCEPT !.migration_date = Some(<<"s", "o", "o", "n">>)]

FileMembers ==
    {MinimalMember, FullMember, NullDateMember, EmptyDateMember, NoStatusMember,
     NoDependenciesMember, NoDependentsMember, BadStatusMember, BadMonthMember,
     BadDateMember}

\* JSON objects over FileNames: every order of every subset of the keys.
FileData ==
    UNION {{[i \in 1..Len(ks) |-> [key |-> ks[i], value |-> vs[i]]] :
                vs \in [1..Len(ks) -> FileMembers]} :
           ks \in DistinctSeqs(FileNames, Cardinality(FileNames))}

InitialFiles == {NoFile, InvalidJsonFile} \cup {JsonFile(data) : data \in FileData}

(***************************************************************************)
(* The tracker's actions                                                   *)
(***************************************************************************)
NoCall == [op |-> "none"]

\* MigrationTracker(): self.modules = {} and _load_data().  An exception
\* that leaves _load_data ends the process.
LoadData ==
    /\ pc = "start"
    /\ LET r == load_data(file, <<>>, EmptyDict, today)
       IN /\ pc' = IF r.outcome = "raised" THEN "crashed" ELSE "ready"
          /\ module_keys' = r.keys
          /\ modules' = r.modules
          /\ load_outcome' = [outcome |-> r.outcome, error |-> r.error]
    /\ last_call' = [op |-> "_load_data"]
    /\ ret' = None
    /\ UNCHANGED <<file, today>>
    /\ UNCHANGED <<analyzer_vars, traversal_vars, archiver_vars>>

UpdateModuleStatus ==
    /\ pc = "ready"
    /\ \E name \in UpdateNames, status \in Statuses,
          migration_date \in OptionalDates, notes \in OptionalNotes :
          /\ modules' = update_module_status(modules, name, status, migration_date, notes, today)
          /\ ret' = Some(update_module_status_result(modules, name))
          /\ last_call' = [op |-> "update_module_status", name |-> name, status |-> status,
                           migration_date |-> migration_date, notes |-> notes]
    /\ UNCHANGED <<pc, file, module_keys, today, load_outcome>>
    /\ UNCHANGED <<analyzer_vars, traversal_vars, archiver_vars>>

\* get_migration_order() with a traversal that consumes the dependency
\* lists it walks: every record is left with no dependencies.
GetMigrationOrder_consuming ==
    /\ pc = "ready"
    /\ ret' = Some(get_migration_order(module_keys, modules))
    /\ last_call' = [op |-> "get_migration_order"]
    /\ modules' = [n \in DOMAIN modules |-> [modules[n] EXCEPT !.dependencies = <<>>]]
    /\ UNCHANGED <<pc, file, module_keys, today, load_outcome>>
    /\ UNCHANGED <<analyzer_vars, traversal_vars, archiver_vars>>

GetMigrationOrder ==
    /\ pc = "ready"
    /\ ret' = Some(get_migration_order(module_keys, modules))
    /\ last_call' = [op |-> "get_migration_order"]
    /\ UNCHANGED <<pc, file, module_keys, modules, today, load_outcome>>
    /\ UNCHANGED <<analyzer_vars, traversal_vars, archiver_vars>>

\* save_data(); the run ends once the snapshot is written.
SaveData ==
    /\ pc = "ready"
    /\ file' = save_data(module_keys, modules)
    /\ pc' = "exited"
    /\ ret' = None
    /\ last_call' = [op |-> "save_data"]
    /\ UNCHANGED <<module_keys, modules, today, load_outcome>>
    /\ UNCHANGED <<analyzer_vars, traversal_vars, archiver_vars>>

\* save_data() taken step by step.  open(self.data_file, "w") creates or
\* truncates the file; json.dump then writes the members through the file
\* object, in the order of self.modules; leaving the with block closes the
\* file.  Until the last member is written and the closing brace follows, the
\* text in the file is not a JSON document.  The process can be ended
\* (killed, or by an OSError of a write) between any two steps.
TruncatedFile == InvalidJsonFile

PartialFile(data) == [exists |-> TRUE, valid_json |-> FALSE, data |-> data]

SaveOpen ==
    /\ pc = "ready"
    /\ file' = TruncatedFile
    /\ pc' = "saving"
    /\ ret' = None
    /\ last_call' = [op |-> "save_data"]
    /\ UNCHANGED <<module_keys, modules, today, load_outcome>>
    /\ UNCHANGED <<analyzer_vars, traversal_vars, archiver_vars>>

SaveDumpMember ==
    /\ pc = "saving"
    /\ Len(file.data) < Len(module_keys)
    /\ file' = PartialFile(SubSeq(save_data(module_keys, modules).data, 1, Len(file.data) + 1))
    /\ UNCHANGED <<pc, module_keys, modules, today, last_call, ret, load_outcome>>
    /\ UNCHANGED <<analyzer_vars, traversal_vars, archiver_vars>>

SaveClose ==
    /\ pc = "saving"
    /\ Len(file.data) = Len(module_keys)
    /\ file' = JsonFile(file.data)
    /\ pc' = "exited"
    /\ UNCHANGED <<module_keys, modules, today, last_call, ret, load_outcome>>
    /\ UNCHANGED <<analyzer_vars, traversal_vars, archiver_vars>>

SaveCrash ==
    /\ pc = "saving"
    /\ pc' = "crashed"
    /\ UNCHANGED <<file, module_keys, modules, today, last_call, ret, load_outcome>>
    /\ UNCHANGED <<analyzer_vars, traversal_vars, archiver_vars>>

\* add_module(name, NOT_STARTED, dependencies, dependents).  Each name is
\* added once: a second add_module under the same name keeps the key's place
\* and replaces the record, which gives a store that adding the final record
\* in the first place gives too.
AddModule ==
    /\ pc = "ready"
    /\ \E name \in Names \ DOMAIN modules, dependencies \in DependencyLists, dependents \in DependentLists :
          /\ module_keys' = DictSetKeys(module_keys, name)
          /\ modules' = add_module(modules, name, NOT_STARTED, dependencies, dependents,
                                   None, None, "")
    /\ ret' = None
    /\ last_call' = [op |-> "add_module"]
    /\ UNCHANGED <<pc, file, today, load_outcome>>
    /\ UNCHANGED <<analyzer_vars, traversal_vars, archiver_vars>>

\* The argument lists add_module is called with: the defaults only, every
\* argument supplied, an explicit empty blocking_issues list, a dependency
\* on a name that is never tracked, a date without blocking_issues.
DefaultArguments ==
    [status |-> NOT_STARTED, dependencies |-> <<>>, dependents |-> <<>>,
     migration_date |-> None, blocking_issues |-> None, notes |-> ""]

AllArguments ==
    [status |-> COMPLETED, dependencies |-> <<"Y">>, dependents |-> <<"X">>,
     migration_date |-> Some(ExplicitDate), blocking_issues |-> Some(<<"issue-1">>),
     notes |-> "added"]

InProgressArguments ==
    [status |-> IN_PROGRESS, dependencies |-> <<"X", "Z">>, dependents |-> <<>>,
     migration_date |-> None, blocking_issues |-> Some(<<>>), notes |-> "wip"]

BlockedArguments ==
    [status |-> BLOCKED, dependencies |-> <<"Ghost">>, dependents |-> <<"Z">>,
     migration_date |-> None, blocking_issues |-> Some(<<"issue-1", "issue-2">>),
     notes |-> ""]

SkippedArguments ==
    [status |-> SKIPPED, dependencies |-> <<"Z", "Y">>, dependents |-> <<"Y">>,
     migration_date |-> Some(ExplicitDate), blocking_issues |-> None,
     notes |-> "skipped"]

AddArguments ==
    {DefaultArguments, AllArguments, InProgressArguments, BlockedArguments, SkippedArguments}

\* add_module(name, status, dependencies, dependents, migration_date,
\* blocking_issues, notes) under one of `names`, tracked or not, with one of
\* the argument lists `arguments`.
AddModuleWith(names, arguments) ==
    /\ pc = "ready"
    /\ \E name \in names, args \in arguments :
          /\ module_keys' = DictSetKeys(module_keys, name)
          /\ modules' = add_module(modules, name, args.status, args.dependencies,
                                   args.dependents, args.migration_date,
                                   args.blocking_issues, args.notes)
          /\ last_call' = [op |-> "add_module", name |-> name, args |-> args]
    /\ ret' = None
    /\ UNCHANGED <<pc, file, today, load_outcome>>
    /\ UNCHANGED <<analyzer_vars, traversal_vars, archiver_vars>>

\* add_module under any of the three names with any of the argument lists.
AddModuleCall == AddModuleWith(Names, AddArguments)

\* add_module, with the defaults or with every argument, under the two
\* names of which update_module_status is given one.
AddKnownModule == AddModuleWith(FileNames, {DefaultArguments, AllArguments})

\* main() once the tracker is constructed, command "status" or no command:
\* print_status_report(), which only reads (export_csv writes another file).
MainStatus ==
    /\ pc = "ready"
    /\ \E command \in {"status", "none"} :
          last_call' = [op |-> "main", command |-> command]
    /\ ret' = None
    /\ pc' = "exited"
    /\ UNCHANGED <<file, module_keys, modules, today, load_outcome>>
    /\ UNCHANGED <<analyzer_vars, traversal_vars, archiver_vars>>

\* The update command with a save_data() that is not behind the `if`.
MainUpdate_saves_always ==
    /\ pc = "ready"
    /\ \E name \in UpdateNames, status \in Statuses, notes \in OptionalNotes :
          /\ modules' = update_module_status(modules, name, status, None, notes, today)
          /\ ret' = Some(update_module_status_result(modules, name))
          /\ file' = save_data(module_keys, modules')
          /\ last_call' = [op |-> "main", command |-> "update", name |-> name,
                           status |-> status, notes |-> notes]
    /\ pc' = "exited"
    /\ UNCHANGED <<module_keys, today, load_outcome>>
    /\ UNCHANGED <<analyzer_vars, traversal_vars, archiver_vars>>

\* main() once the tracker is constructed, command "update": the status is
\* one of the five values (argparse choices), no date is passed, notes is
\* args.notes; save_data() runs if update_module_status returned True.
MainUpdate ==
    /\ pc = "ready"
    /\ \E name \in UpdateNames, status \in Statuses, notes \in OptionalNotes :
          /\ modules' = update_module_status(modules, name, status, None, notes, today)
          /\ ret' = Some(update_module_status_result(modules, name))
          /\ file' = IF update_module_status_result(modules, name)
                     THEN save_data(module_keys, modules')
                     ELSE file
          /\ last_call' = [op |-> "main", command |-> "update", name |-> name,
                           status |-> status, notes |-> notes]
    /\ pc' = "exited"
    /\ UNCHANGED <<module_keys, today, load_outcome>>
    /\ UNCHANGED <<analyzer_vars, traversal_vars, archiver_vars>>

\* A run that finds some snapshot, or none, on some day.
TrackerInit ==
    /\ pc = "start"
    /\ file \in InitialFiles
    /\ module_keys = <<>>
    /\ modules = EmptyDict
    /\ today \in Days
    /\ last_call = NoCall
    /\ ret = None
    /\ load_outcome = [outcome |-> "none", error |-> "none"]

\* A tracker constructed on the snapshot {}: no module is tracked yet.
EmptyTrackerInit ==
    /\ pc = "ready"
    /\ file = JsonFile(<<>>)
    /\ module_keys = <<>>
    /\ modules = EmptyDict
    /\ today = StartDate
    /\ last_call = [op |-> "_load_data"]
    /\ ret = None
    /\ load_outcome = [outcome |-> "loaded", error |-> "none"]

(***************************************************************************)
(* get_migration_order, step by step                                       *)
(***************************************************************************)
\* No call of get_migration_order is being stepped through.
TraversalIdle ==
    /\ dfs_pc = "idle"
    /\ dfs_loop = 1
    /\ dfs_stack = <<>>
    /\ visited = {}
    /\ result = <<>>
    /\ dfs_expansions = EmptyDict

\* dfs_enter without `if module_name in visited: return`.
dfs_enter_unguarded(stack, module_name) ==
    [stack |-> Append(stack, [module_name |-> module_name, dep |-> 1]),
     visited |-> visited \cup {module_name},
     expansions |-> [dfs_expansions EXCEPT ![module_name] = @ + 1]]

\* The call dfs(module_name) up to its for loop, made with `stack` as the
\* active calls: it returns at once on a visited module, and otherwise
\* marks the module and becomes the innermost active call.
dfs_enter(stack, module_name) ==
    IF module_name \in visited
    THEN [stack |-> stack, visited |-> visited, expansions |-> dfs_expansions]
    ELSE [stack |-> Append(stack, [module_name |-> module_name, dep |-> 1]),
          visited |-> visited \cup {module_name},
          expansions |-> [dfs_expansions EXCEPT ![module_name] = @ + 1]]

\* One iteration of `for name, module in self.modules.items()`, or the end
\* of that loop.
DfsLoopRoots ==
    /\ dfs_pc = "roots"
    /\ dfs_stack = <<>>
    /\ IF dfs_loop > Len(module_keys)
       THEN /\ dfs_pc' = "remaining"
            /\ dfs_loop' = 1
            /\ UNCHANGED <<dfs_stack, visited, dfs_expansions>>
       ELSE LET name == module_keys[dfs_loop]
                entered == dfs_enter(dfs_stack, name)
            IN /\ dfs_pc' = dfs_pc
               /\ dfs_loop' = dfs_loop + 1
               /\ IF modules[name].dependents = <<>>
                  THEN /\ dfs_stack' = entered.stack
                       /\ visited' = entered.visited
                       /\ dfs_expansions' = entered.expansions
                  ELSE UNCHANGED <<dfs_stack, visited, dfs_expansions>>
    /\ UNCHANGED result
    /\ UNCHANGED <<tracker_vars, analyzer_vars, archiver_vars>>

\* One iteration of `for name in self.modules`, or, at the end of that
\* loop, `return list(reversed(result))`.
DfsLoopRemaining ==
    /\ dfs_pc = "remaining"
    /\ dfs_stack = <<>>
    /\ IF dfs_loop > Len(module_keys)
       THEN /\ dfs_pc' = "returned"
            /\ ret' = Some(Reverse(result))
            /\ last_call' = [op |-> "get_migration_order"]
            /\ UNCHANGED <<dfs_loop, dfs_stack, visited, dfs_expansions>>
       ELSE LET entered == dfs_enter(dfs_stack, module_keys[dfs_loop])
            IN /\ dfs_pc' = dfs_pc
               /\ dfs_loop' = dfs_loop + 1
               /\ dfs_stack' = entered.stack
               /\ visited' = entered.visited
               /\ dfs_expansions' = entered.expansions
               /\ UNCHANGED <<ret, last_call>>
    /\ UNCHANGED result
    /\ UNCHANGED <<pc, file, module_keys, modules, today, load_outcome>>
    /\ UNCHANGED <<analyzer_vars, archiver_vars>>

\* One iteration of `for dep in self.modules[module_name].dependencies` in
\* the innermost active dfs call.
DfsDependency ==
    /\ dfs_stack # <<>>
    /\ LET top == dfs_stack[Len(dfs_stack)]
           deps == modules[top.module_name].dependencies
       IN /\ top.dep <= Len(deps)
          /\ LET advanced == [dfs_stack EXCEPT ![Len(dfs_stack)].dep = @ + 1]
                 entered == dfs_enter(advanced, deps[top.dep])
             IN IF deps[top.dep] \in DOMAIN modules
                THEN /\ dfs_stack' = entered.stack
                     /\ visited' = entered.visited
                     /\ dfs_expansions' = entered.expansions
                ELSE /\ dfs_stack' = advanced
                     /\ UNCHANGED <<visited, dfs_expansions>>
    /\ UNCHANGED <<dfs_pc, dfs_loop, result>>
    /\ UNCHANGED <<tracker_vars, analyzer_vars, archiver_vars>>

\* The end of the innermost active dfs call: result.append(module_name).
DfsAppend ==
    /\ dfs_stack # <<>>
    /\ LET top == dfs_stack[Len(dfs_stack)]
       IN /\ top.dep > Len(modules[top.module_name].dependencies)
          /\ result' = Append(result, top.module_name)
          /\ dfs_stack' = SubSeq(dfs_stack, 1, Len(dfs_stack) - 1)
    /\ UNCHANGED <<dfs_pc, dfs_loop, visited, dfs_expansions>>
    /\ UNCHANGED <<tracker_vars, analyzer_vars, archiver_vars>>

\* The stores a call is stepped through on: up to three modules, each with
\* any dependency list and with or without dependents.
TraversalKeys == {<<>>, <<"X">>, <<"X", "Y">>, <<"X", "Y", "Z">>}

TraversalDependents == {<<>>, <<"X">>}

TraversalStores(keys) ==
    {[n \in Range(keys) |-> ModuleInfo(n, NOT_STARTED, lists[n][1], lists[n][2], None, None, "")] :
        lists \in [Range(keys) -> DependencyLists \X TraversalDependents]}

\* get_migration_order() has just been called on some store: visited = set(),
\* result = [], and the first loop is about to start.
TraversalInit ==
    /\ pc = "ready"
    /\ file = JsonFile(<<>>)
    /\ module_keys \in TraversalKeys
    /\ modules \in TraversalStores(module_keys)
    /\ today = StartDate
    /\ last_call = [op |-> "_load_data"]
    /\ ret = None
    /\ load_outcome = [outcome |-> "loaded", error |-> "none"]
    /\ dfs_pc = "roots"
    /\ dfs_loop = 1
    /\ dfs_stack = <<>>
    /\ visited = {}
    /\ result = <<>>
    /\ dfs_expansions = [n \in DOMAIN modules |-> 0]

(***************************************************************************)
(* Bounds and input sets of the analyzer                                   *)
(***************************************************************************)
\* Most rules (targets and their dependencies together) in the workspace.
MaxRules == 4

\* The rule set of the specification's scenario.
ScenarioValidDependencies ==
    [p \in {"A", "B"} |-> IF p = "A" THEN <<"B">> ELSE <<>>]

NoValidDependencies == [p \in {} |-> <<>>]

SelfOnlyValidDependencies == [p \in {"A", "UmbraCoreTypes"} |-> <<p>>]

\* valid_dependencies is an attribute: __init__ sets the fixed table, and a
\* caller may assign another.
RuleSets ==
    {DefaultValidDependencies, ScenarioValidDependencies, NoValidDependencies,
     SelfOnlyValidDependencies}

Packages ==
    {"A", "B", "Legacy", "UmbraCoreTypes", "UmbraErrorKit", "UmbraInterfaces", "UmbraUtils",
     "UmbraImplementations", "UmbraFoundationBridge", "ResticKit"}

\* //packages/A:A, //packages/B:B, //packages/UmbraCoreTypes:UmbraCoreTypes,
\* //packages/UmbraErrorKit/Sources:UmbraErrorKit and //tools/gen:gen
Labels ==
    {Label(TRUE, <<"packages", "A">>, "A"),
     Label(TRUE, <<"packages", "B">>, "B"),
     Label(TRUE, <<"packages", "UmbraCoreTypes">>, "UmbraCoreTypes"),
     Label(TRUE, <<"packages", "UmbraErrorKit", "Sources">>, "UmbraErrorKit"),
     Label(TRUE, <<"tools", "gen">>, "gen")}

EmptyWorkspace == [targets |-> <<>>, deps |-> [t \in {} |-> <<>>]]

RECURSIVE SumOfLengths(_, _)
SumOfLengths(f, S) ==
    IF S = {} THEN 0
    ELSE LET x == CHOOSE x \in S : TRUE IN Len(f[x]) + SumOfLengths(f, S \ {x})

WorkspaceSize(w) == Len(w.targets) + SumOfLengths(w.deps, DOMAIN w.deps)

\* What get_all_package_targets may return for a workspace: None when the
\* query failed, else the object bazelisk printed; for no target that is
\* either {} or {"target": []}.
AllTargetsAnswers(w) ==
    {None, Some([target |-> w.targets])}
        \cup (IF w.targets = <<>> THEN {Some([k \in {} |-> <<>>])} ELSE {})

\* `not all_targets`
NoTargets(all_targets) == all_targets = None \/ DOMAIN all_targets[1] = {}

\* all_targets.get("target", [])
TargetRules(all_targets) ==
    IF "target" \in DOMAIN all_targets[1] THEN all_targets[1].target ELSE <<>>

\* The targets get_target_deps is called for: those with a package name.
QueriedTargets(all_targets) ==
    IF NoTargets(all_targets) THEN {}
    ELSE {t \in Range(TargetRules(all_targets)) : ~NoPackage(parse_target_name(t))}

\* What get_target_deps returns for each target when the queries for the
\* targets in `failing` fail.
DepsResults(w, failing) ==
    [t \in DOMAIN w.deps |-> IF t \in failing THEN None ELSE Some(w.deps[t])]

(***************************************************************************)
(* The analyzer's actions                                                  *)
(***************************************************************************)
\* A target is added to the workspace.
AddTarget ==
    /\ analyzer_pc = "idle"
    /\ WorkspaceSize(workspace) < MaxRules
    /\ \E t \in Labels \ Range(workspace.targets) :
          workspace' = [targets |-> Append(workspace.targets, t),
                        deps |-> DictSet(workspace.deps, t, <<>>)]
    /\ UNCHANGED <<valid_dependencies, analyzer_pc, queries, package_deps_keys, package_deps,
                   invalid_deps, analysis_ret, exit_status, validity_call, validity_ret>>
    /\ UNCHANGED <<tracker_vars, traversal_vars, archiver_vars>>

\* A target of the workspace is given one more dependency.
AddDependency ==
    /\ analyzer_pc = "idle"
    /\ WorkspaceSize(workspace) < MaxRules
    /\ \E t \in Range(workspace.targets) :
          \E d \in Labels \ Range(workspace.deps[t]) :
              workspace' = [workspace EXCEPT !.deps[t] = Append(@, d)]
    /\ UNCHANGED <<valid_dependencies, analyzer_pc, queries, package_deps_keys, package_deps,
                   invalid_deps, analysis_ret, exit_status, validity_call, validity_ret>>
    /\ UNCHANGED <<tracker_vars, traversal_vars, archiver_vars>>

\* A run in which looking a source package up in the rule set registers it
\* there with no allowed dependency, as a defaultdict would.
RunAnalyzer_registers_sources(from, to) ==
    /\ analyzer_pc = from
    /\ \E all_targets \in AllTargetsAnswers(workspace) :
       \E failing \in SUBSET QueriedTargets(all_targets) :
          /\ queries' = [all_targets |-> all_targets, failed |-> failing]
          /\ IF NoTargets(all_targets)
             THEN /\ analysis_ret' = None
                  /\ UNCHANGED <<package_deps_keys, package_deps, invalid_deps,
                                 valid_dependencies>>
             ELSE LET pd == build_package_deps(valid_dependencies, TargetRules(all_targets),
                                               DepsResults(workspace, failing))
                  IN /\ package_deps_keys' = pd.keys
                     /\ package_deps' = pd.sets
                     /\ invalid_deps' \in invalid_deps_lists(valid_dependencies, pd, 1)
                     /\ analysis_ret' = Some(analysis_verdict(invalid_deps'))
                     /\ valid_dependencies' =
                            [p \in DOMAIN valid_dependencies \cup Range(pd.keys) |->
                                IF p \in DOMAIN valid_dependencies
                                THEN valid_dependencies[p] ELSE <<>>]
    /\ exit_status' = Some(IF analysis_ret' = Some(TRUE) THEN 0 ELSE 1)
    /\ analyzer_pc' = to
    /\ UNCHANGED <<workspace, validity_call, validity_ret>>
    /\ UNCHANGED <<tracker_vars, traversal_vars, archiver_vars>>

\* main() without --graph: analyze_dependencies(), then sys.exit.  Any query
\* may fail; a set is iterated in any order.  The run takes the analyzer's
\* process from `from` to `to`.
RunAnalyzer(from, to) ==
    /\ analyzer_pc = from
    /\ \E all_targets \in AllTargetsAnswers(workspace) :
       \E failing \in SUBSET QueriedTargets(all_targets) :
          /\ queries' = [all_targets |-> all_targets, failed |-> failing]
          /\ IF NoTargets(all_targets)
             THEN /\ analysis_ret' = None
                  /\ UNCHANGED <<package_deps_keys, package_deps, invalid_deps>>
             ELSE LET pd == build_package_deps(valid_dependencies, TargetRules(all_targets),
                                               DepsResults(workspace, failing))
                  IN /\ package_deps_keys' = pd.keys
                     /\ package_deps' = pd.sets
                     /\ invalid_deps' \in invalid_deps_lists(valid_dependencies, pd, 1)
                     /\ analysis_ret' = Some(analysis_verdict(invalid_deps'))
    /\ exit_status' = Some(IF analysis_ret' = Some(TRUE) THEN 0 ELSE 1)
    /\ analyzer_pc' = to
    /\ UNCHANGED <<valid_dependencies, workspace, validity_call, validity_ret>>
    /\ UNCHANGED <<tracker_vars, traversal_vars, archiver_vars>>

\* The analyzer is run on the workspace.
AnalyzeDependencies == RunAnalyzer("idle", "exited")

\* The analyzer is run once more, on the workspace as the first run left it:
\* a new process, with the rule set of the first.
AnalyzeDependenciesAgain == RunAnalyzer("exited", "rerun")

\* is_dependency_valid(source_pkg, target_pkg) on any two packages.
IsDependencyValid ==
    /\ \E source_pkg \in Packages, target_pkg \in Packages :
          /\ validity_call' = <<source_pkg, target_pkg>>
          /\ validity_ret' = Some(is_dependency_valid(valid_dependencies, source_pkg, target_pkg))
    /\ UNCHANGED <<valid_dependencies, workspace, analyzer_pc, queries, package_deps_keys,
                   package_deps, invalid_deps, analysis_ret, exit_status>>
    /\ UNCHANGED <<tracker_vars, traversal_vars, archiver_vars>>

\* An analyzer constructed with the rule set `rules`, on an empty workspace.
AnalyzerInit(rules) ==
    /\ valid_dependencies \in rules
    /\ workspace = EmptyWorkspace
    /\ analyzer_pc = "idle"
    /\ queries = [all_targets |-> None, failed |-> {}]
    /\ package_deps_keys = <<>>
    /\ package_deps = EmptyPackageDeps.sets
    /\ invalid_deps = <<>>
    /\ analysis_ret = None
    /\ exit_status = None
    /\ validity_call = <<>>
    /\ validity_ret = None

(***************************************************************************)
(* MigrationArchiver.  A directory name is the sequence of the words it is  *)
(* made of: <<"X", "Tests">> is the directory XTests.  A module name is one *)
(* word, and glob("*X*") matches the names that hold the word X.            *)
(***************************************************************************)
\* info.get("status") == "Completed"
is_completed(info) == "status" \in DOMAIN info /\ info.status = "Completed"

\* get_migrated_modules on the loaded object `status`, from its i-th member on
RECURSIVE get_migrated_modules(_, _)
get_migrated_modules(status, i) ==
    IF i > Len(status) THEN <<>>
    ELSE (IF is_completed(status[i].value) THEN <<status[i].key>> ELSE <<>>)
             \o get_migrated_modules(status, i + 1)

\* find_module_in_sources: the exact match and the matches of *module_name*
find_module_in_sources(dirs, module_name) ==
    {d \in dirs : d = <<module_name>>} \cup {d \in dirs : module_name \in Range(d)}

\* target_path.exists() for the directory name of source_path
target_exists(archive, source_path) ==
    \E entry \in archive : entry.name = source_path /\ ~entry.stamped

\* The state of one archiving run: the two directories and the counters.
ArchiveState(sources, archive, errors, archived, skipped) ==
    [sources |-> sources, archive |-> archive, errors |-> errors,
     archived_count |-> archived, skipped_count |-> skipped]

\* archive_module(module_name, source_path) and the counting of its result
\* by the caller; shutil.move raises on the directories in `failing`.  An
\* archived directory keeps its name, or gets a time stamp appended when the
\* name is taken, and records the module it was archived for.
archive_module(st, module_name, source_path, failing) ==
    IF source_path \in failing
    THEN [st EXCEPT !.errors = @ \cup {source_path}]
    ELSE [st EXCEPT !.sources = @ \ {source_path},
                    !.archive = @ \cup {[name |-> source_path,
                                          stamped |-> target_exists(st.archive, source_path),
                                          migrated_to |-> module_name]},
                    !.archived_count = @ + 1]

\* for source in sources: if self.archive_module(module, source): ...
RECURSIVE archive_sources(_, _, _, _)
archive_sources(st, module_name, found, failing) ==
    IF found = {} THEN st
    ELSE LET source == CHOOSE source \in found : TRUE
         IN archive_sources(archive_module(st, module_name, source, failing),
                            module_name, found \ {source}, failing)

\* for module in migrated_modules, from the i-th on
RECURSIVE archive_modules(_, _, _, _)
archive_modules(migrated_modules, i, st, failing) ==
    IF i > Len(migrated_modules) THEN st
    ELSE LET module == migrated_modules[i]
             found == find_module_in_sources(st.sources, module)
         IN archive_modules(migrated_modules, i + 1,
                IF found = {} THEN [st EXCEPT !.skipped_count = @ + 1]
                ELSE archive_sources(st, module, found, failing),
                failing)

\* archive_all_migrated_modules() once migration_status.json is loaded
archive_all_migrated_modules(status, sources, archive, failing) ==
    archive_modules(get_migrated_modules(status, 1), 1,
                    ArchiveState(sources, archive, {}, 0, 0), failing)

\* The directories Sources/ may hold, and the snapshots the archiver may find.
SourceDirs == {<<"X">>, <<"X", "Tests">>, <<"Y">>, <<"Legacy", "Y">>, <<"W">>}

ArchiverMembers == {FullMember, MinimalMember, NoStatusMember}

ArchiverFiles ==
    {NoFile, InvalidJsonFile}
        \cup {JsonFile(data) : data \in {d \in FileData :
                                            \A i \in 1..Len(d) : d[i].value \in ArchiverMembers}}

\* MigratedArchive/ before the run: empty, or holding a directory X.
InitialArchives == {{}, {[name |-> <<"X">>, stamped |-> FALSE, migrated_to |-> "X"]}}

\* A directory appears in Sources/ before the archiver runs.
CreateSourceDirectory ==
    /\ archiver_pc = "idle"
    /\ \E d \in SourceDirs \ source_dirs : source_dirs' = source_dirs \cup {d}
    /\ UNCHANGED <<archiver_pc, archive_dirs, archive_errors, archived_count,
                   skipped_count, archiver_exit>>
    /\ UNCHANGED <<tracker_vars, analyzer_vars, traversal_vars>>

\* One run of the script: MigrationArchiver.run() and the exit.  A snapshot
\* that cannot be loaded ends the run with sys.exit(1); otherwise the run
\* ends normally, whichever moves failed.
ArchiveRun ==
    /\ archiver_pc = "idle"
    /\ IF ~file.exists \/ ~file.valid_json
       THEN /\ archiver_exit' = Some(1)
            /\ UNCHANGED <<source_dirs, archive_dirs, archive_errors, archived_count,
                           skipped_count>>
       ELSE \E failing \in SUBSET source_dirs :
               LET st == archive_all_migrated_modules(file.data, source_dirs,
                                                      archive_dirs, failing)
               IN /\ source_dirs' = st.sources
                  /\ archive_dirs' = st.archive
                  /\ archive_errors' = st.errors
                  /\ archived_count' = st.archived_count
                  /\ skipped_count' = st.skipped_count
                  /\ archiver_exit' = Some(0)
    /\ archiver_pc' = "exited"
    /\ UNCHANGED <<tracker_vars, analyzer_vars, traversal_vars>>

\* No archiver has run, on empty directories.
ArchiverIdle ==
    /\ archiver_pc = "idle"
    /\ source_dirs = {}
    /\ archive_dirs = {}
    /\ archive_errors = {}
    /\ archived_count = 0
    /\ skipped_count = 0
    /\ archiver_exit = None

(***************************************************************************)
(* Specifications                                                          *)
(***************************************************************************)
vars == <<tracker_vars, analyzer_vars, traversal_vars, archiver_vars>>

Init ==
    /\ TrackerInit
    /\ AnalyzerInit({DefaultValidDependencies})
    /\ TraversalIdle
    /\ ArchiverIdle

Next == LoadData \/ UpdateModuleStatus \/ GetMigrationOrder \/ SaveData

\* A run of the tracker's command line: load, update and query, save.
Spec == Init /\ [][Next]_vars

MainNext == LoadData \/ MainStatus \/ MainUpdate

\* One run of the tracker's command line: the constructor, then the command.
SpecMain == Init /\ [][MainNext]_vars

OrderInit ==
    /\ EmptyTrackerInit
    /\ AnalyzerInit({DefaultValidDependencies})
    /\ TraversalIdle
    /\ ArchiverIdle

OrderNext == AddModule \/ GetMigrationOrder

\* Stores built by add_module, and their migration order.
SpecOrder == OrderInit /\ [][OrderNext]_vars

CallsNext == AddModuleCall \/ GetMigrationOrder

\* Stores built by add_module calls that add and replace records, and their
\* migration order.
SpecCalls == OrderInit /\ [][CallsNext]_vars

StoreNext == AddKnownModule \/ UpdateModuleStatus \/ GetMigrationOrder \/ SaveData

\* Any sequence of add_module, update_module_status and get_migration_order
\* calls on a tracker, and a final save_data.
SpecStore == OrderInit /\ [][StoreNext]_vars

SaveNext == AddKnownModule \/ UpdateModuleStatus \/ SaveOpen \/ SaveDumpMember
               \/ SaveClose \/ SaveCrash

\* A store is built and updated, then saved step by step; the process may
\* end at any point of the save.
SpecSave == OrderInit /\ [][SaveNext]_vars

AnalyzerSpecInit ==
    /\ EmptyTrackerInit
    /\ AnalyzerInit({DefaultValidDependencies, ScenarioValidDependencies})
    /\ TraversalIdle
    /\ ArchiverIdle

AnalyzerNext == AddTarget \/ AddDependency \/ AnalyzeDependencies

\* A workspace is built up, then analysed by one run of the analyzer.
SpecAnalyzer == AnalyzerSpecInit /\ [][AnalyzerNext]_vars

RepeatNext == AddTarget \/ AddDependency \/ AnalyzeDependencies \/ AnalyzeDependenciesAgain

\* A workspace is built up and analysed under the fixed rule set, then
\* analysed a second time.
SpecRepeat == OrderInit /\ [][RepeatNext]_vars

RulesInit ==
    /\ EmptyTrackerInit
    /\ AnalyzerInit(RuleSets)
    /\ TraversalIdle
    /\ ArchiverIdle

RulesNext == IsDependencyValid

\* is_dependency_valid under several rule sets.
SpecRules == RulesInit /\ [][RulesNext]_vars

TraversalSpecInit ==
    /\ TraversalInit
    /\ AnalyzerInit({DefaultValidDependencies})
    /\ ArchiverIdle

TraversalNext == DfsLoopRoots \/ DfsLoopRemaining \/ DfsDependency \/ DfsAppend

\* One call of get_migration_order on any store, step by step.
SpecTraversal == TraversalSpecInit /\ [][TraversalNext]_vars

ArchiverSpecInit ==
    /\ pc = "exited"
    /\ file \in ArchiverFiles
    /\ module_keys = <<>>
    /\ modules = EmptyDict
    /\ today = StartDate
    /\ last_call = NoCall
    /\ ret = None
    /\ load_outcome = [outcome |-> "none", error |-> "none"]
    /\ AnalyzerInit({DefaultValidDependencies})
    /\ TraversalIdle
    /\ archiver_pc = "idle"
    /\ source_dirs = {}
    /\ archive_dirs \in InitialArchives
    /\ archive_errors = {}
    /\ archived_count = 0
    /\ skipped_count = 0
    /\ archiver_exit = None

ArchiverNext == CreateSourceDirectory \/ ArchiveRun

\* Directories appear in Sources/, then the archiver runs once on the
\* snapshot the tracker left.
SpecArchiver == ArchiverSpecInit /\ [][ArchiverNext]_vars

(***************************************************************************)
(* Properties of get_migration_order                                       *)
(***************************************************************************)
\* The tracked modules that module a lists as dependencies.
TrackedDependencies(ms, a) == Range(ms[a].dependencies) \cap DOMAIN ms

\* The modules reached from the set `frontier` along tracked dependencies.
RECURSIVE Reachable(_, _, _)
Reachable(ms, frontier, seen) ==
    IF frontier \subseteq seen THEN seen
    ELSE Reachable(ms, UNION {TrackedDependencies(ms, a) : a \in frontier} \ (seen \cup frontier),
                   seen \cup frontier)

Acyclic(ms) == \A a \in DOMAIN ms : a \notin Reachable(ms, TrackedDependencies(ms, a), {})

OrderReturned == last_call.op = "get_migration_order"

\* C1: for an acyclic store, get_migration_order returns every tracked
\* dependency B of a module A strictly before A.
C1_DependencyBeforeDependent ==
    (OrderReturned /\ Acyclic(modules)) =>
        \A a, b \in DOMAIN modules :
            b \in Range(modules[a].dependencies) =>
                IndexOf(ret[1], b) < IndexOf(ret[1], a)

\* C2: for every store (cycles, dependencies on untracked names, dependents
\* at odds with dependencies) get_migration_order returns a sequence that
\* holds every tracked module name exactly once and no other name.
C2_OrderIsPermutation ==
    OrderReturned =>
        /\ Range(ret[1]) = DOMAIN modules
        /\ Len(ret[1]) = Cardinality(DOMAIN modules)
        /\ NoDup(ret[1])

\* An order was returned for a store with a dependency cycle, a dependency
\* on an untracked name, a module listing itself, and a module that is a
\* dependency of another while its dependents list is empty.
C2_Witness ==
    /\ OrderReturned
    /\ DOMAIN modules = {"X", "Y"}
    /\ ~Acyclic(modules)
    /\ modules["X"].dependencies = <<"Y", "Z">>
    /\ modules["Y"].dependencies = <<"Y", "X">>
    /\ modules["X"].dependents = <<"Z">>
    /\ modules["Y"].dependents = <<>>
    /\ Len(ret[1]) = 2

\* An order was returned for a store of three modules with dependencies.
OrderOfThreeReturned ==
    /\ OrderReturned
    /\ Cardinality(DOMAIN modules) = 3
    /\ \E a \in DOMAIN modules : TrackedDependencies(modules, a) \ {a} # {}

\* C11: get_migration_order changes no key and no record of the store, and
\* a call that directly follows another call on the same store returns the
\* sequence the first call returned.
C11_OrderIsIdempotentAndReadOnly ==
    [][last_call'.op = "get_migration_order"
          => /\ modules' = modules
             /\ module_keys' = module_keys
             /\ (last_call.op = "get_migration_order" => ret' = ret)]_vars

\* An order of three modules has been returned with a module that has two
\* dependencies; the store is ready for the next call.
C11_Witness ==
    /\ OrderOfThreeReturned
    /\ pc = "ready"
    /\ \E a \in DOMAIN modules : Len(modules[a].dependencies) = 2
    /\ Len(ret[1]) = 3

\* The names in module-name sorted order.
SortedNames == <<"X", "Y", "Z">>

\* No tracked module depends on another tracked module.
NoTrackedEdges(ms) == \A a \in DOMAIN ms : TrackedDependencies(ms, a) \subseteq {a}

\* The keys in the order the two loops of get_migration_order visit them
\* when no dfs call descends: the modules with no dependents, then the rest.
VisitOrder(keys, ms) ==
    SelectSeq(keys, LAMBDA n : ms[n].dependents = <<>>)
        \o SelectSeq(keys, LAMBDA n : ms[n].dependents # <<>>)

\* C12: when no tracked module depends on another tracked module,
\* get_migration_order returns every module exactly once in module-name
\* sorted order.
C12_IndependentModulesInSortedOrder ==
    (OrderReturned /\ NoTrackedEdges(modules)) =>
        ret[1] = SelectSeq(SortedNames, LAMBDA n : n \in DOMAIN modules)

\* What such a store gets instead: the reverse of the order of visit, which
\* is insertion order, the modules with no dependents first.
IndependentModulesInReverseVisitOrder ==
    (OrderReturned /\ NoTrackedEdges(modules)) =>
        ret[1] = Reverse(VisitOrder(module_keys, modules))

\* An order was returned for three independent modules added as X, Y, Z of
\* which the first has a dependents list: it is visited last, returned first.
C12_Witness ==
    /\ OrderReturned
    /\ NoTrackedEdges(modules)
    /\ module_keys = <<"X", "Y", "Z">>
    /\ modules["X"].dependents # <<>>
    /\ modules["Y"].dependents = <<>>
    /\ modules["Z"].dependents = <<>>
    /\ ret[1] = <<"X", "Z", "Y">>

\* C13: the order depends only on the records: a store holding the same
\* records under keys inserted in any other order yields the same sequence.
C13_OrderIndependentOfInsertionOrder ==
    OrderReturned =>
        \A keys \in Orderings(DOMAIN modules) :
            get_migration_order(keys, modules) = ret[1]

\* An order was returned for an acyclic store of three modules with
\* dependencies, and another insertion order of the same records gives
\* another sequence.
C13_Witness ==
    /\ OrderOfThreeReturned
    /\ Acyclic(modules)
    /\ \E keys \in Orderings(DOMAIN modules) :
          get_migration_order(keys, modules) # ret[1]

\* The steps the active dfs calls still have to take: for each, the rest of
\* its dependency list and its result.append.
RECURSIVE StackWork(_, _)
StackWork(stack, i) ==
    IF i > Len(stack) THEN 0
    ELSE (Len(modules[stack[i].module_name].dependencies) - stack[i].dep + 2)
             + StackWork(stack, i + 1)

\* The steps the first dfs call on each module of S takes by itself.
RECURSIVE ExpansionWork(_)
ExpansionWork(S) ==
    IF S = {} THEN 0
    ELSE LET n == CHOOSE n \in S : TRUE
         IN (Len(modules[n].dependencies) + 1) + ExpansionWork(S \ {n})

\* The steps the two loops of get_migration_order still have to take.
LoopWork ==
    CASE dfs_pc = "roots" -> (Len(module_keys) - dfs_loop + 2) + (Len(module_keys) + 1)
      [] dfs_pc = "remaining" -> Len(module_keys) - dfs_loop + 2
      [] OTHER -> 0

\* A bound on the steps the call has left.
TraversalRank == LoopWork + StackWork(dfs_stack, 1) + ExpansionWork(DOMAIN modules \ visited)

\* No module is expanded twice, the call has a bounded number of steps
\* left, and it can take a step until it has returned.
TraversalBounded ==
    /\ \A n \in DOMAIN modules : dfs_expansions[n] <= 1
    /\ TraversalRank >= 0
    /\ dfs_pc = "returned" \/ ENABLED TraversalNext
    /\ dfs_pc = "returned" => TraversalRank = 0

\* C14: get_migration_order terminates on every finite store, cycles and
\* self-dependencies included: no module is expanded by dfs more than once,
\* every step of the call lowers a bound on the steps that are left, and a
\* call that has not returned always has a next step.
C14_TraversalTerminates ==
    []TraversalBounded /\ [][TraversalRank' < TraversalRank]_vars

\* The call has returned all three modules of a store in which X lists
\* itself and X, Y, Z depend on each other in a cycle.
C14_Witness ==
    /\ dfs_pc = "returned"
    /\ module_keys = <<"X", "Y", "Z">>
    /\ modules["X"].dependencies = <<"X", "Y">>
    /\ modules["Y"].dependencies = <<"Z">>
    /\ modules["Z"].dependencies = <<"X">>
    /\ Len(ret[1]) = 3

\* The stepwise call returns what the operator get_migration_order computes.
TraversalReturnsOrder ==
    dfs_pc = "returned" => ret = Some(get_migration_order(module_keys, modules))

(***************************************************************************)
(* Properties of update_module_status                                      *)
(***************************************************************************)
\* C3: update_module_status with a name that is not tracked returns False
\* and leaves the keys and every record of the store as they were.
C3_UpdateAbsentNameChangesNothing ==
    [][(last_call'.op = "update_module_status" /\ last_call'.name \notin DOMAIN modules)
          => (ret' = Some(FALSE) /\ modules' = modules /\ module_keys' = module_keys)]_vars

\* update_module_status("Ghost", COMPLETED) has returned False on a store
\* that tracks other modules.
C3_Witness ==
    /\ last_call.op = "update_module_status"
    /\ last_call.name = "Ghost"
    /\ last_call.status = COMPLETED
    /\ "Ghost" \notin DOMAIN modules
    /\ modules # EmptyDict
    /\ ret = Some(FALSE)

(***************************************************************************)
(* Properties of add_module and of the set of tracked names                *)
(***************************************************************************)
\* C19: add_module(name, ...) inserts or fully replaces: after the call the
\* store has exactly one record under name, its fields are the supplied
\* values or the defaults (no date, no blocking issue, empty notes), every
\* other record is as it was, and every record's name field is its key.
C19_AddModuleInsertsOrReplaces ==
    [][last_call'.op = "add_module" =>
          LET name == last_call'.name
              args == last_call'.args
          IN /\ DOMAIN modules' = DOMAIN modules \cup {name}
             /\ Range(module_keys') = DOMAIN modules'
             /\ NoDup(module_keys')
             /\ modules'[name] =
                    [name |-> name, status |-> args.status,
                     dependencies |-> args.dependencies, dependents |-> args.dependents,
                     migration_date |-> args.migration_date,
                     blocking_issues |-> IF args.blocking_issues = None THEN <<>>
                                         ELSE args.blocking_issues[1],
                     notes |-> args.notes]
             /\ \A n \in DOMAIN modules \ {name} : modules'[n] = modules[n]
             /\ \A n \in DOMAIN modules' : modules'[n].name = n]_vars

\* X was added, then Y and Z, and the latest call added X again with the
\* defaults only: the record of X holds no date, no issue and no note.
C19_Witness ==
    /\ last_call.op = "add_module"
    /\ last_call.name = "X"
    /\ last_call.args = DefaultArguments
    /\ module_keys = <<"X", "Y", "Z">>
    /\ modules["X"].migration_date = None
    /\ modules["X"].blocking_issues = <<>>
    /\ modules["Y"].status = COMPLETED

\* C20: over any sequence of add_module, update_module_status,
\* get_migration_order and save_data calls no module name leaves the store.
C20_ModuleNamesNeverShrink ==
    [][/\ DOMAIN modules \subseteq DOMAIN modules'
       /\ Range(module_keys) \subseteq Range(module_keys')]_vars

\* X was completed without a date, then skipped, then the store was saved:
\* X and Y are still tracked.
C20_Witness ==
    /\ pc = "exited"
    /\ DOMAIN modules = {"X", "Y"}
    /\ Range(module_keys) = {"X", "Y"}
    /\ modules["X"].status = SKIPPED
    /\ modules["X"].migration_date = Some(today)
    /\ file.exists

UpdateSucceeded == last_call.op = "update_module_status" /\ ret = Some(TRUE)

\* C10: after a successful update to Completed without a date the module's
\* migration date is today's, whatever it was; after a successful update
\* with a date it is that date, whatever the status.
C10_MigrationDateAfterUpdate ==
    UpdateSucceeded =>
        /\ (last_call.status = COMPLETED /\ last_call.migration_date = None)
               => modules[last_call.name].migration_date = Some(today)
        /\ last_call.migration_date # None
               => modules[last_call.name].migration_date = last_call.migration_date

\* The module came from the snapshot with an earlier date, and an update to
\* Completed without a date has replaced that date by today's.
C10_Witness ==
    /\ UpdateSucceeded
    /\ last_call.name = "X"
    /\ last_call.status = COMPLETED
    /\ last_call.migration_date = None
    /\ load_outcome.outcome = "loaded"
    /\ file.data[1].key = "X"
    /\ file.data[1].value = FullMember
    /\ modules["X"].migration_date = Some(today)
    /\ today # Date(2024, 1, 9)

(***************************************************************************)
(* Properties of save_data and _load_data                                  *)
(***************************************************************************)
SameContent(a, b) ==
    /\ a.status = b.status
    /\ a.dependencies = b.dependencies
    /\ a.dependents = b.dependents
    /\ a.migration_date = b.migration_date
    /\ a.blocking_issues = b.blocking_issues
    /\ a.notes = b.notes

\* C7: _load_data on the snapshot save_data has just written gives a store
\* with the same module names and, for each, the same status, dependencies,
\* dependents, migration date, blocking issues and notes.
C7_SaveLoadRoundTrip ==
    last_call.op = "save_data" =>
        LET r == load_data(file, <<>>, EmptyDict, today)
        IN /\ r.outcome = "loaded"
           /\ DOMAIN r.modules = DOMAIN modules
           /\ \A n \in DOMAIN modules : SameContent(r.modules[n], modules[n])

\* A store was saved in which one module is Completed with a migration date
\* and blocking issues, and another has no date and notes given by an update.
C7_Witness ==
    /\ last_call.op = "save_data"
    /\ DOMAIN modules = {"X", "Y"}
    /\ modules["Y"].status = COMPLETED
    /\ modules["Y"].migration_date # None
    /\ modules["Y"].blocking_issues # <<>>
    /\ modules["X"].status = BLOCKED
    /\ modules["X"].migration_date = None
    /\ modules["X"].notes = "updated"
    /\ file = save_data(module_keys, modules)

\* The snapshot exists and cannot be parsed into module records: the text is
\* not JSON, or building the record of some member raises.
SnapshotCorrupt(f) ==
    /\ f.exists
    /\ \/ ~f.valid_json
       \/ \E i \in 1..Len(f.data) : module_from_json_error(f.data[i].value) # "none"

\* C8: when the snapshot cannot be parsed into module records, loading does
\* not abort the run: it falls back to the default modules.
C8_CorruptSnapshotFallsBack ==
    (last_call.op = "_load_data" /\ SnapshotCorrupt(file)) =>
        (pc = "ready" /\ load_outcome.outcome = "fallback")

DefaultStore == initialize_default_modules(<<>>, EmptyDict, today)

\* C9: after a load that fell back, the store is exactly the default module
\* set.
C9_FallbackIsExactlyDefaults ==
    (last_call.op = "_load_data" /\ load_outcome.outcome = "fallback") =>
        (module_keys = DefaultStore.keys /\ modules = DefaultStore.modules)

(***************************************************************************)
(* Properties of the analyzer                                              *)
(***************************************************************************)
\* analyze_dependencies got targets and ran its validation loop.
AnalysisRan == analyzer_pc = "exited" /\ ~NoTargets(queries.all_targets)

\* The (source, target) pairs of the package dependency mapping.
PackagePairs == UNION {{<<s, t>> : t \in package_deps[s]} : s \in DOMAIN package_deps}

\* C4: the violations analyze_dependencies collects are exactly the pairs of
\* the package dependency mapping that is_dependency_valid rejects.
C4_ViolationsAreTheRejectedPairs ==
    AnalysisRan =>
        Range(invalid_deps) =
            {e \in PackagePairs : ~is_dependency_valid(valid_dependencies, e[1], e[2])}

\* Rule set {A: [B], B: []}, graph {A: {B}, B: {A}}: only (B, A) is reported.
C4_Witness ==
    /\ AnalysisRan
    /\ valid_dependencies = ScenarioValidDependencies
    /\ DOMAIN package_deps = {"A", "B"}
    /\ package_deps["A"] = {"B"}
    /\ package_deps["B"] = {"A"}
    /\ invalid_deps = <<<<"B", "A">>>>
    /\ analysis_ret = Some(FALSE)

AnalyzerExited == analyzer_pc = "exited"

\* A build-graph query of the run failed: the query for the targets, or the
\* query for the dependencies of some target.
SomeQueryFailed == queries.all_targets = None \/ queries.failed # {}

\* package_deps as the run would have built it had no query failed.
FullPackageDeps ==
    build_package_deps(valid_dependencies, workspace.targets, DepsResults(workspace, {}))

\* C15: when a build-graph query fails during analyze_dependencies, the run
\* ends with a non-zero exit status and without a verdict: none is computed
\* from the partial dependency graph.
C15_FailedQueryAbortsRun ==
    (AnalyzerExited /\ SomeQueryFailed) =>
        /\ analysis_ret = None
        /\ exit_status # None
        /\ exit_status[1] # 0

\* The query for the dependencies of a target failed, the run reported
\* "valid" and exited with status 0, and the full graph holds a violation.
C15_Witness ==
    /\ AnalyzerExited
    /\ queries.failed # {}
    /\ analysis_ret = Some(TRUE)
    /\ exit_status = Some(0)
    /\ \E source_pkg \in Range(FullPackageDeps.keys) :
          invalid_targets(valid_dependencies, source_pkg,
                          FullPackageDeps.sets[source_pkg]) # {}

\* C17: when no query failed and the package dependency graph is empty, be
\* it that the workspace yields no package target, the run reports no
\* violation, returns True and exits with status 0.
C17_EmptyGraphIsValid ==
    (AnalyzerExited /\ ~SomeQueryFailed /\ package_deps_keys = <<>>) =>
        /\ invalid_deps = <<>>
        /\ analysis_ret = Some(TRUE)
        /\ exit_status = Some(0)

\* The targets query answered {} for a workspace without targets, and the
\* run ended without a verdict, with status 1.
C17_Witness ==
    /\ AnalyzerExited
    /\ workspace.targets = <<>>
    /\ queries.all_targets # None
    /\ DOMAIN queries.all_targets[1] = {}
    /\ analysis_ret = None
    /\ exit_status = Some(1)

\* The package names in sorted order.
SortedPackages ==
    <<"A", "B", "Legacy", "ResticKit", "UmbraCoreTypes", "UmbraErrorKit",
      "UmbraFoundationBridge", "UmbraImplementations", "UmbraInterfaces", "UmbraUtils">>

\* (source, target) pair a sorts before pair b.
PairBefore(a, b) ==
    \/ IndexOf(SortedPackages, a[1]) < IndexOf(SortedPackages, b[1])
    \/ a[1] = b[1] /\ IndexOf(SortedPackages, a[2]) < IndexOf(SortedPackages, b[2])

\* C18: the violations are listed in order of source package and, within
\* one source, of target package.
C18_ViolationsOrderedBySourceThenTarget ==
    AnalysisRan =>
        \A i, j \in 1..Len(invalid_deps) :
            i < j => PairBefore(invalid_deps[i], invalid_deps[j])

\* Targets B, A under the rule set {A: [B], B: []}: the violation of B is
\* listed before the violation of A.
C18_Witness ==
    /\ AnalysisRan
    /\ valid_dependencies = ScenarioValidDependencies
    /\ invalid_deps = <<<<"B", "A">>, <<"A", "UmbraCoreTypes">>>>

\* C5: is_dependency_valid(p, p) is true for every package p, a key of the
\* rule set or not, whatever the rule set holds.
C5_SelfDependencyIsValid ==
    (validity_call # <<>> /\ validity_call[1] = validity_call[2]) =>
        validity_ret = Some(TRUE)

\* A package that no rule names was found to be a valid dependency of itself
\* under a rule set with no rule at all.
C5_Witness ==
    /\ valid_dependencies = NoValidDependencies
    /\ validity_call = <<"Legacy", "Legacy">>
    /\ validity_ret = Some(TRUE)

\* C6: for source # target, is_dependency_valid is true exactly when target
\* is in the list the rule set gives for source; for a source that is no key
\* of the rule set it is false.
C6_ValidIffInAllowList ==
    (validity_call # <<>> /\ validity_call[1] # validity_call[2]) =>
        validity_ret =
            Some(/\ validity_call[1] \in DOMAIN valid_dependencies
                 /\ \E i \in 1..Len(valid_dependencies[validity_call[1]]) :
                        valid_dependencies[validity_call[1]][i] = validity_call[2])

\* UmbraCoreTypes is no key of the fixed rule set, so its dependency on
\* UmbraErrorKit was found invalid.
C6_Witness ==
    /\ valid_dependencies = DefaultValidDependencies
    /\ validity_call = <<"UmbraCoreTypes", "UmbraErrorKit">>
    /\ validity_ret = Some(FALSE)

(***************************************************************************)
(* Properties of the archiver                                              *)
(***************************************************************************)
ArchiveRan == archiver_pc = "exited"

\* C16: when moving a directory fails during archive_all_migrated_modules,
\* the run is aborted with a non-zero exit status: it does not finish
\* normally.
C16_FailedMoveAbortsRun ==
    (ArchiveRan /\ archive_errors # {}) => (archiver_exit # None /\ archiver_exit[1] # 0)

\* The move of X failed, Y was archived after it, and the script ended with
\* status 0.
C16_Witness ==
    /\ ArchiveRan
    /\ file.data # <<>>
    /\ file.data[1].key = "X"
    /\ archive_errors = {<<"X">>}
    /\ \E entry \in archive_dirs : entry.name = <<"Y">> /\ entry.migrated_to = "Y"
    /\ archived_count = 1
    /\ archiver_exit = Some(0)

(***************************************************************************)
(* C21: save_data replaces the snapshot atomically: at every point of a    *)
(* save, a crash part-way included, the file holds either the complete     *)
(* previous content or the complete new content, never a truncated or      *)
(* partial one.  As a property of steps: a step that changes the file      *)
(* leaves in it the complete document of the store.                        *)
(***************************************************************************)
C21_SaveIsAtomic ==
    [][file' # file => file' = save_data(module_keys, modules)]_vars

\* The process ended part-way through a save of a store of two modules: one
\* member is in the file, which the next run cannot read.
C21_Witness ==
    /\ pc = "crashed"
    /\ last_call.op = "save_data"
    /\ Len(module_keys) = 2
    /\ file.exists /\ ~file.valid_json
    /\ Len(file.data) = 1
    /\ load_data(file, <<>>, EmptyDict, today).outcome = "fallback"

\* A save that runs to its end leaves what save_data computes in one piece.
SaveStepsWriteSaveData ==
    (pc = "exited" /\ last_call.op = "save_data") => file = save_data(module_keys, modules)

(***************************************************************************)
(* C22: the package dependency mapping that analyze_dependencies validates *)
(* never contains a self-edge: no package p is a member of the set         *)
(* recorded for p.                                                         *)
(***************************************************************************)
C22_NoSelfEdgeInPackageDeps ==
    AnalysisRan => \A p \in DOMAIN package_deps : p \notin package_deps[p]

\* The dependencies bazelisk listed for a target of a rule-set package hold
\* the target itself and a target of another package; the query succeeded
\* and only the other package is recorded.
C22_Witness ==
    /\ AnalysisRan
    /\ queries.failed = {}
    /\ \E t \in Range(workspace.targets) :
          LET p == parse_target_name(t)
          IN /\ ~NoPackage(p)
             /\ p[1] \in DOMAIN valid_dependencies
             /\ t \in Range(workspace.deps[t])
             /\ p[1] \in DOMAIN package_deps
             /\ package_deps[p[1]] # {}

(***************************************************************************)
(* C23: validation performs no mutation and is repeatable:                 *)
(* analyze_dependencies leaves the rule set valid_dependencies unchanged,  *)
(* and a second run that gets the same build-graph answers as the first    *)
(* yields the same set of violations, the same verdict and the same exit   *)
(* status.                                                                 *)
(***************************************************************************)
SecondRunStep == analyzer_pc = "exited" /\ analyzer_pc' = "rerun"

C23_ValidationIsPureAndRepeatable ==
    [][/\ valid_dependencies' = valid_dependencies
       /\ (SecondRunStep /\ queries' = queries) =>
             /\ package_deps' = package_deps
             /\ Range(invalid_deps') = Range(invalid_deps)
             /\ analysis_ret' = analysis_ret
             /\ exit_status' = exit_status]_vars

\* A second run has reported two violations of one source that is not a key
\* of the rule set; the rule set still has its six keys.
C23_Witness ==
    /\ analyzer_pc = "rerun"
    /\ ~NoTargets(queries.all_targets)
    /\ queries.failed = {}
    /\ valid_dependencies = DefaultValidDependencies
    /\ Len(invalid_deps) = 2
    /\ invalid_deps[1][1] = invalid_deps[2][1]
    /\ invalid_deps[1][1] \notin DOMAIN valid_dependencies
    /\ analysis_ret = Some(FALSE)

(***************************************************************************)
(* C24: the command line writes the snapshot only after a successful       *)
(* update_module_status: the update command for an absent module writes    *)
(* nothing and returns False, the status command never writes, and so a    *)
(* run that created the default modules because the file was missing       *)
(* leaves the file missing unless its update succeeded.  A successful      *)
(* update writes the store it has updated.                                 *)
(***************************************************************************)
UpdateCommand(call) == call.op = "main" /\ call.command = "update"

C24_SnapshotWrittenOnlyAfterSuccessfulUpdate ==
    [][/\ file' # file =>
             /\ UpdateCommand(last_call')
             /\ last_call'.name \in DOMAIN modules
             /\ ret' = Some(TRUE)
       /\ (UpdateCommand(last_call') /\ last_call'.name \notin DOMAIN modules) =>
             /\ ret' = Some(FALSE)
             /\ file' = file
       /\ (UpdateCommand(last_call') /\ last_call'.name \in DOMAIN modules) =>
             file' = save_data(module_keys', modules')
       /\ (pc' = "exited" /\ load_outcome'.outcome = "default" /\ ret' # Some(TRUE)) =>
             file' = NoFile]_vars

\* The file was missing, the default modules were created, the update named
\* a module that is not among them: the run ended and there is still no file.
C24_Witness ==
    /\ pc = "exited"
    /\ UpdateCommand(last_call)
    /\ ret = Some(FALSE)
    /\ load_outcome.outcome = "default"
    /\ module_keys # <<>>
    /\ file = NoFile

\* The same after the status command.
StatusRunLeavesNoFile ==
    /\ pc = "exited"
    /\ last_call.op = "main" /\ last_call.command = "status"
    /\ load_outcome.outcome = "default"
    /\ module_keys # <<>>
    /\ file = NoFile

(***************************************************************************)
(* C25: for every store whose dependency graph is acyclic, the sequence    *)
(* get_migration_order returns (the reversed DFS post-order) lists every   *)
(* module strictly before each of its tracked dependencies: dependents     *)
(* come first (the sequence starts with a module that no tracked module    *)
(* depends on) and modules without dependencies come last (it ends with a  *)
(* module without tracked dependencies), in whatever order the modules are *)
(* seeded.                                                                 *)
(***************************************************************************)
DependentsFirst(order, ms) ==
    /\ \A a \in DOMAIN ms : \A b \in TrackedDependencies(ms, a) :
          IndexOf(order, a) < IndexOf(order, b)
    /\ order # <<>> =>
          /\ \A a \in DOMAIN ms : order[1] \notin TrackedDependencies(ms, a)
          /\ TrackedDependencies(ms, order[Len(order)]) = {}

FreeModuleMayComeFirst ==
    /\ dfs_pc = "returned"
    /\ module_keys = <<"X", "Y", "Z">>
    /\ modules["X"].dependencies = <<"Y">>
    /\ modules["Y"].dependencies = <<>>
    /\ modules["Z"].dependencies = <<>>
    /\ ret = Some(<<"Z", "X", "Y">>)

(***************************************************************************)
(* C26: a successful update_module_status to a status other than Completed *)
(* with no date leaves the module's migration date as it was, so a date    *)
(* stamped while Completed stays when the module moves to In Progress,     *)
(* Blocked, Not Started or Skipped.                                        *)
(***************************************************************************)
UpdateStepSucceeded == last_call'.op = "update_module_status" /\ ret' = Some(TRUE)

C26_DateKeptWhenNotCompleted ==
    [][(/\ UpdateStepSucceeded
        /\ last_call'.status # COMPLETED
        /\ last_call'.migration_date = None)
          => modules'[last_call'.name].migration_date = modules[last_call'.name].migration_date]_vars

\* X was added without a date, an update to Completed stamped today's date,
\* and after an update to In Progress without a date X still holds it.
C26_Witness ==
    /\ UpdateSucceeded
    /\ last_call.name = "X"
    /\ last_call.status = IN_PROGRESS
    /\ last_call.migration_date = None
    /\ modules["X"].status = IN_PROGRESS
    /\ modules["X"].migration_date = Some(today)
    /\ modules["X"].notes = ""

(***************************************************************************)
(* C27: a successful update_module_status(name, ...) changes only the      *)
(* status, migration date and notes of the named module: its name,         *)
(* dependencies, dependents and blocking issues, every record of every     *)
(* other module and the keys are as before, and its notes are as before    *)
(* when no notes argument is given.                                        *)
(***************************************************************************)
C27_UpdateChangesOnlyStatusDateNotes ==
    [][UpdateStepSucceeded =>
          LET name == last_call'.name
          IN /\ module_keys' = module_keys
             /\ DOMAIN modules' = DOMAIN modules
             /\ \A n \in DOMAIN modules \ {name} : modules'[n] = modules[n]
             /\ modules'[name].name = modules[name].name
             /\ modules'[name].dependencies = modules[name].dependencies
             /\ modules'[name].dependents = modules[name].dependents
             /\ modules'[name].blocking_issues = modules[name].blocking_issues
             /\ modules'[name].status = last_call'.status
             /\ last_call'.notes = None => modules'[name].notes = modules[name].notes
             /\ last_call'.notes # None => modules'[name].notes = last_call'.notes[1]
             /\ file' = file]_vars

\* X, added with dependencies, dependents, a blocking issue and notes, has
\* been updated to Skipped without notes beside another module Y.
C27_Witness ==
    /\ UpdateSucceeded
    /\ last_call.name = "X"
    /\ last_call.status = SKIPPED
    /\ last_call.notes = None
    /\ "Y" \in DOMAIN modules
    /\ modules["X"].status = SKIPPED
    /\ modules["X"].dependencies = <<"Y">>
    /\ modules["X"].dependents = <<"X">>
    /\ modules["X"].blocking_issues = <<"issue-1">>
    /\ modules["X"].notes = "added"

(***************************************************************************)
(* C28: the fixed rule set admits no cycle among distinct packages: every  *)
(* cycle through two or more distinct packages has an edge that            *)
(* is_dependency_valid rejects, i.e. no package is reached from itself     *)
(* along accepted dependencies on other packages, and a dependency that    *)
(* is_dependency_valid accepts never leads back to its source.  In         *)
(* particular UmbraCoreTypes, which is no key of the rule set, may depend  *)
(* on no package but itself.                                               *)
(***************************************************************************)
\* The other packages that source_pkg may depend on.
ValidTargets(rules, source_pkg) ==
    {target_pkg \in Packages \ {source_pkg} : is_dependency_valid(rules, source_pkg, target_pkg)}

\* The packages reached from `frontier` along accepted dependencies.
RECURSIVE ValidClosure(_, _, _)
ValidClosure(rules, frontier, seen) ==
    IF frontier \subseteq seen THEN seen
    ELSE ValidClosure(rules,
                      UNION {ValidTargets(rules, a) : a \in frontier} \ (seen \cup frontier),
                      seen \cup frontier)

C28_FixedRuleSetAdmitsNoCycle ==
    valid_dependencies = DefaultValidDependencies =>
        /\ \A p \in Packages :
              p \notin ValidClosure(valid_dependencies, ValidTargets(valid_dependencies, p), {})
        /\ (/\ validity_call # <<>>
            /\ validity_call[1] # validity_call[2]
            /\ validity_ret = Some(TRUE))
              => validity_call[1] \notin ValidClosure(valid_dependencies, {validity_call[2]}, {})
        /\ "UmbraCoreTypes" \notin DOMAIN valid_dependencies
        /\ (/\ validity_call # <<>>
            /\ validity_call[1] = "UmbraCoreTypes"
            /\ validity_call[2] # "UmbraCoreTypes")
              => validity_ret = Some(FALSE)

\* UmbraImplementations -> UmbraInterfaces was accepted; from UmbraInterfaces
\* the accepted dependencies lead on to UmbraErrorKit and UmbraCoreTypes and
\* end there.
C28_Witness ==
    /\ valid_dependencies = DefaultValidDependencies
    /\ validity_call = <<"UmbraImplementations", "UmbraInterfaces">>
    /\ validity_ret = Some(TRUE)
    /\ ValidClosure(valid_dependencies, {"UmbraInterfaces"}, {})
          = {"UmbraInterfaces", "UmbraErrorKit", "UmbraCoreTypes"}
    /\ ValidTargets(valid_dependencies, "UmbraCoreTypes") = {}

(***************************************************************************)
(* C29: the package dependency mapping records an edge source -> target    *)
(* only when target is a key of the rule set or is UmbraCoreTypes.  An     *)
(* observed dependency of a package on any other package under packages/   *)
(* is not recorded and not reported as a violation, although               *)
(* is_dependency_valid rejects it.                                         *)
(***************************************************************************)
\* The (source package, target package) pairs bazelisk reported to the run:
\* the queried targets whose query succeeded, and their dependencies.
ObservedPairs ==
    UNION {{<<parse_target_name(t)[1], parse_target_name(workspace.deps[t][i])[1]>> :
               i \in {j \in 1..Len(workspace.deps[t]) :
                        ~NoPackage(parse_target_name(workspace.deps[t][j]))}} :
           t \in QueriedTargets(queries.all_targets) \ queries.failed}

\* pkg is a key of the rule set or is UmbraCoreTypes.
KeyOrCoreTypes(pkg) == pkg \in DOMAIN valid_dependencies \/ pkg = "UmbraCoreTypes"

C29_OnlyTrackedTargetsRecorded ==
    AnalysisRan =>
        /\ \A e \in PackagePairs : KeyOrCoreTypes(e[2])
        /\ \A i \in 1..Len(invalid_deps) : KeyOrCoreTypes(invalid_deps[i][2])
        /\ \A e \in ObservedPairs :
              ~KeyOrCoreTypes(e[2]) => (e \notin PackagePairs /\ e \notin Range(invalid_deps))

\* UmbraErrorKit was seen to depend on package A, which the fixed rule set
\* does not allow; nothing was recorded and the run found no violation.
C29_Witness ==
    /\ AnalysisRan
    /\ valid_dependencies = DefaultValidDependencies
    /\ <<"UmbraErrorKit", "A">> \in ObservedPairs
    /\ ~is_dependency_valid(valid_dependencies, "UmbraErrorKit", "A")
    /\ PackagePairs = {}
    /\ invalid_deps = <<>>
    /\ analysis_ret = Some(TRUE)
    /\ exit_status = Some(0)

(***************************************************************************)
(* C30: archive_all_migrated_modules moves a directory out of Sources only *)
(* if it is the directory of a module whose status in the snapshot is      *)
(* Completed; the directory of a module with another status, or of an      *)
(* untracked module, is never moved.                                       *)
(***************************************************************************)
\* The modules the snapshot marks Completed.
CompletedModules ==
    {file.data[i].key : i \in {j \in 1..Len(file.data) : is_completed(file.data[j].value)}}

C30_OnlyCompletedModulesMoved ==
    [][\A d \in source_dirs \ source_dirs' :
          \E module \in CompletedModules : d = <<module>>]_vars

\* X is Completed and Y is In Progress: XTests, which is no tracked module's
\* directory, has been archived as an instance of X, and Y is still in
\* Sources.
C30_Witness ==
    /\ ArchiveRan
    /\ archiver_exit = Some(0)
    /\ CompletedModules = {"X"}
    /\ \E i \in 1..Len(file.data) :
          file.data[i].key = "Y" /\ file.data[i].value = MinimalMember
    /\ \E entry \in archive_dirs : entry.name = <<"X", "Tests">> /\ entry.migrated_to = "X"
    /\ <<"Y">> \in source_dirs
    /\ <<"X">> \notin source_dirs

\* What the run does keep to: a directory leaves Sources only if its name
\* holds the name of a Completed module, and it arrives in the archive.
MovedDirectoriesHoldCompletedName ==
    [][\A d \in source_dirs \ source_dirs' :
          /\ \E module \in CompletedModules : module \in Range(d)
          /\ \E entry \in archive_dirs' : entry.name = d]_vars

====
